---------------------------- MODULE Spec2Model ----------------------------
(***************************************************************************)
(* A model of the bank-statement extraction pipeline of the expense        *)
(* tracker: src/src/services/pdf_parser.py with src/src/core/constants.py. *)
(*                                                                         *)
(* Text is a sequence of one-character strings, so that the regular        *)
(* expressions and the substring tests of the source are computed          *)
(* character by character.  An amount is an exact decimal scaled by 100    *)
(* (the integer 12345 stands for 123.45): the source's decimal branch      *)
(* yields at most two fractional digits.                                   *)
(***************************************************************************)
EXTENDS Integers, Sequences, FiniteSets, TLC

VARIABLES
    call,          \* the call of a field normalizer under check: [fn, arg, ...]
    ret,           \* what that call returned, or Pending before it ran
    path,          \* the return statement that call left by
    files,         \* load_pdfs_to_dataframe: the batch
    deduplicate,   \* load_pdfs_to_dataframe: the flag
    pc,            \* where the batch is: "idle", "load", "pages" or "done"
    file_i,        \* load_pdfs_to_dataframe: the index i of the current file
    pg,            \* extract_transactions_from_pdf: the pages done so far
    last_col_map,  \* extract_transactions_from_pdf: last_col_map
    all_rows,      \* extract_transactions_from_pdf: all_rows
    dfs,           \* load_pdfs_to_dataframe: the frames to concatenate
    failed,        \* load_pdfs_to_dataframe: the (index, message) pairs
    out,           \* load_pdfs_to_dataframe: the frame returned
    extracted,     \* history: per file, what extraction returned
    canon,         \* history: per file, the rows before the projection
    page_log,      \* history: per file, what the loop did with each page
    handles,       \* the indices of the files whose pdfplumber handle is open
    rules          \* apply_all_rules: its arguments, its locals and where it is

parser ==
    <<files, deduplicate, pc, file_i, pg, last_col_map, all_rows, dfs, failed, out,
      extracted, canon, page_log, handles>>

pipeline == <<parser, rules>>

\* apply_all_rules is not running
NoRules == [pc |-> "idle"]

vars == <<call, ret, path, pipeline>>

\* the parser while something else is checked on its own
ParserIdle ==
    /\ files = <<>>
    /\ deduplicate = TRUE
    /\ pc = "idle"
    /\ file_i = 0
    /\ pg = 0
    /\ last_col_map = <<>>
    /\ all_rows = <<>>
    /\ dfs = <<>>
    /\ failed = <<>>
    /\ out = [kind |-> "none"]
    /\ extracted = <<>>
    /\ canon = <<>>
    /\ page_log = <<>>
    /\ handles = {}

\* the pipeline while a field normalizer is checked on its own
PipelineIdle == ParserIdle /\ rules = NoRules

(***************************************************************************)
(* Characters and text.                                                    *)
(***************************************************************************)
Digits == {"0", "1", "2", "3", "4", "5", "6", "7", "8", "9"}

Separators == {".", ","}

Whitespace == {" "}

DigitVal(c) ==
    CASE c = "0" -> 0 [] c = "1" -> 1 [] c = "2" -> 2 [] c = "3" -> 3
      [] c = "4" -> 4 [] c = "5" -> 5 [] c = "6" -> 6 [] c = "7" -> 7
      [] c = "8" -> 8 [] c = "9" -> 9

\* int() of a run of digits; 0 for the empty run
RECURSIVE NatOf(_)
NatOf(s) ==
    IF s = <<>> THEN 0
    ELSE 10 * NatOf(SubSeq(s, 1, Len(s) - 1)) + DigitVal(s[Len(s)])

AllDigits(s) == \A j \in 1..Len(s) : s[j] \in Digits

\* the characters of s that are in keep, in order
RECURSIVE Filter(_, _)
Filter(s, keep) ==
    IF s = <<>> THEN <<>>
    ELSE (IF Head(s) \in keep THEN <<Head(s)>> ELSE <<>>) \o Filter(Tail(s), keep)

\* str.lstrip(chars)
RECURSIVE LStrip(_, _)
LStrip(s, chars) ==
    IF s # <<>> /\ Head(s) \in chars THEN LStrip(Tail(s), chars) ELSE s

\* str.rstrip(chars)
RECURSIVE RStrip(_, _)
RStrip(s, chars) ==
    IF s # <<>> /\ s[Len(s)] \in chars
    THEN RStrip(SubSeq(s, 1, Len(s) - 1), chars) ELSE s

\* str.strip()
Strip(s) == RStrip(LStrip(s, Whitespace), Whitespace)

\* str.count of the characters in chars
Count(s, chars) == Cardinality({j \in 1..Len(s) : s[j] \in chars})

\* every text of at most n characters of the alphabet
AllStrings(alphabet, n) == UNION {[1..k -> alphabet] : k \in 0..n}

(***************************************************************************)
(* Values: what a cell or an argument can be.                              *)
(***************************************************************************)
None == [kind |-> "none"]

NaN == [kind |-> "nan"]

\* an int too large for a float: float() of it raises OverflowError
BigInt == [kind |-> "bigint"]

Num(v) == [kind |-> "num", v |-> v]

Str(s) == [kind |-> "str", s |-> s]

Raise(exc) == [kind |-> "raise", exc |-> exc]

Pending == [kind |-> "pending"]

(***************************************************************************)
(* _parse_vnd_amount                                                       *)
(***************************************************************************)
AmountChars == Digits \cup Separators \cup {"-"}

\* re.sub(r"[^\d.,\-]", "", s).lstrip("-")
CleanAmount(s) == LStrip(Filter(s, AmountChars), {"-"})

\* the pattern written with \d{1} for \d{1,2}
DecimalPatternOneDigit(s) ==
    /\ Len(s) >= 2
    /\ s[Len(s) - 1] \in Separators
    /\ s[Len(s)] \in Digits
    /\ \A j \in 1..(Len(s) - 2) : s[j] \in Digits \cup Separators

\* re.search(r"^[0-9,.]*[.,]\d{1,2}$", s) for a text of amount characters
DecimalPattern(s) ==
    \E k \in {1, 2} :
        /\ Len(s) >= k + 1
        /\ s[Len(s) - k] \in Separators
        /\ \A j \in (Len(s) - k + 1)..Len(s) : s[j] \in Digits
        /\ \A j \in 1..(Len(s) - k - 1) : s[j] \in Digits \cup Separators

\* the condition of the decimal branch
LooksDecimal(s) == DecimalPattern(s) /\ Count(s, Separators) = 1

\* float(s.replace(",", ".")) where s is digits, one separator, digits:
\* the value scaled by 100, or Raise
FloatOfDecimal(s) ==
    LET p == CHOOSE j \in 1..Len(s) : s[j] \in Separators
        whole == SubSeq(s, 1, p - 1)
        frac == SubSeq(s, p + 1, Len(s))
    IN  IF AllDigits(whole) /\ AllDigits(frac) /\ Len(frac) \in {1, 2}
        THEN Num(100 * NatOf(whole)
                 + (IF Len(frac) = 1 THEN 10 * NatOf(frac) ELSE NatOf(frac)))
        ELSE Raise("ValueError")

\* a float() that skips every '-' instead of raising on a misplaced one
FloatOfIntegerLenient(s) ==
    IF Filter(s, Digits) # <<>> THEN Num(100 * NatOf(Filter(s, Digits)))
    ELSE Raise("ValueError")

\* float(s) where s holds digits and '-' only: an optional sign, then digits
FloatOfInteger(s) ==
    IF s # <<>> /\ Head(s) = "-" /\ Tail(s) # <<>> /\ AllDigits(Tail(s))
    THEN Num(-100 * NatOf(Tail(s)))
    ELSE IF s # <<>> /\ AllDigits(s)
    THEN Num(100 * NatOf(s))
    ELSE Raise("ValueError")

Negate(n, negative) == IF negative THEN Num(-n.v) ELSE n

parse_vnd_amount(val) ==
    IF val.kind \in {"none", "nan"} THEN Num(0)
    ELSE IF val.kind = "num" THEN val
    ELSE IF val.kind = "bigint" THEN Raise("OverflowError")
    ELSE
        LET s0 == Strip(val.s) IN
        IF s0 = <<>> THEN Num(0)
        ELSE
            LET negative == Head(s0) = "-"
                s == CleanAmount(s0)
                dec == IF LooksDecimal(s) THEN FloatOfDecimal(s)
                       ELSE Raise("ValueError")
                thousands == FloatOfInteger(Filter(s, Digits \cup {"-"}))
            IN  IF dec.kind = "num" THEN Negate(dec, negative)
                ELSE IF thousands.kind = "num" THEN Negate(thousands, negative)
                ELSE Num(0)

(***************************************************************************)
(* The amounts given to _parse_vnd_amount: every text of at most           *)
(* MaxAmountLen characters of a small alphabet, the examples of the        *)
(* documentation and of the tests, and the values that are not text.       *)
(***************************************************************************)
MaxAmountLen == 4

AmountAlphabet == {"0", "1", "5", ".", ",", "-", "x", " "}

AmountExamples ==
    { <<"1", ".", "0", "0", "0", ".", "0", "0", "0">>,
      <<"1", ",", "0", "0", "0", ",", "0", "0", "0">>,
      <<"1", "0", "0", "0", "0", "0", "0">>,
      <<"2", "0", "0", ",", "0", "0", "0">>,
      <<"1", "0", ".", "5", "0", "0", ".", "0", "0", "0">>,
      <<"1", "2", "3", ".", "4", "5">>,
      <<"1", "2", "3", ",", "4">>,
      <<"-", "5", "0", ",", "0", "0", "0">>,
      <<"a", "b", "c">>,
      <<"-", "-">> }

AmountInputs ==
    {None, NaN, BigInt, Num(0), Num(10000), Num(150), Num(-5000)}
        \cup {Str(s) : s \in AllStrings(AmountAlphabet, MaxAmountLen) \cup AmountExamples}

InitAmount ==
    /\ call \in {[fn |-> "parse_vnd_amount", arg |-> a] : a \in AmountInputs}
    /\ ret = Pending
    /\ path = "none"
    /\ PipelineIdle

CallParseAmount ==
    /\ call.fn = "parse_vnd_amount"
    /\ ret = Pending
    /\ ret' = parse_vnd_amount(call.arg)
    /\ UNCHANGED <<call, path, pipeline>>

NextAmount == CallParseAmount

SpecAmount == InitAmount /\ [][NextAmount]_vars

(***************************************************************************)
(* _parse_date                                                             *)
(***************************************************************************)
Date(y, m, d) == [kind |-> "date", y |-> y, m |-> m, d |-> d]

DateSeps == {"/", "-"}

\* the length of the run of digits of s that starts at position from
RECURSIVE DigitRun(_, _)
DigitRun(s, from) ==
    IF from <= Len(s) /\ s[from] \in Digits THEN 1 + DigitRun(s, from + 1) ELSE 0

Min(a, b) == IF a < b THEN a ELSE b

\* re.match(r"(\d{1,2})[/\-](\d{1,2})[/\-](\d{2,4})", s): the three groups, or
\* <<>> when s does not start with the pattern.  A group takes as many digits
\* as it may; a shorter first or second group would have to be followed by a
\* digit where the pattern wants a separator.
MatchDMY(s) ==
    LET a == Min(DigitRun(s, 1), 2)
        b == Min(DigitRun(s, a + 2), 2)
        c == Min(DigitRun(s, a + b + 3), 4)
    IN  IF /\ a >= 1
           /\ Len(s) >= a + 1 /\ s[a + 1] \in DateSeps
           /\ b >= 1
           /\ Len(s) >= a + b + 2 /\ s[a + b + 2] \in DateSeps
           /\ c >= 2
        THEN << NatOf(SubSeq(s, 1, a)),
                NatOf(SubSeq(s, a + 2, a + b + 1)),
                NatOf(SubSeq(s, a + b + 3, a + b + c + 2)) >>
        ELSE <<>>

IsLeap(y) == (y % 4 = 0 /\ y % 100 # 0) \/ y % 400 = 0

DaysInMonth(y, m) ==
    IF m = 2 THEN (IF IsLeap(y) THEN 29 ELSE 28)
    ELSE IF m \in {4, 6, 9, 11} THEN 30 ELSE 31

ValidYMD(y, m, d) == y \in 1..9999 /\ m \in 1..12 /\ d \in 1..DaysInMonth(y, m)

\* the years every pandas Timestamp holds (nanosecond resolution:
\* 1677-09-21 to 2262-04-11); outside them the constructor raises
\* OutOfBoundsDatetime, a ValueError, or builds the date, by pandas version
InTimestampYears(y) == y \in 1678..2261

\* the constructor without the try/except around it
TimestampOutcomesUnguarded(y, mo, d) ==
    IF ~ValidYMD(y, mo, d) THEN {Raise("ValueError")} ELSE {Date(y, mo, d)}

\* pd.Timestamp(year=y, month=mo, day=d) under try/except (ValueError,
\* TypeError): what the guarded call can leave in the result
TimestampOutcomes(y, mo, d) ==
    IF ~ValidYMD(y, mo, d) THEN {None}
    ELSE IF InTimestampYears(y) THEN {Date(y, mo, d)}
    ELSE {None, Date(y, mo, d)}

\* YYYY-MM-DD, the whole text
IsoShape(s) ==
    /\ Len(s) = 10
    /\ \A j \in {1, 2, 3, 4, 6, 7, 9, 10} : s[j] \in Digits
    /\ s[5] = "-" /\ s[8] = "-"

\* what the general parser may read from a text it has no fixed rule for
UnspecifiedDates == {Date(2025, 12, 1), Date(1970, 1, 1)}

\* pd.to_datetime(val) under try/except (ValueError, TypeError), for a text:
\* an ISO date is read as written, a text without any digit is not a date,
\* and the parser's reading of any other text is left open
GeneralParserOutcomes(s) ==
    LET y == NatOf(SubSeq(s, 1, 4))
        m == NatOf(SubSeq(s, 6, 7))
        d == NatOf(SubSeq(s, 9, 10))
    IN  IF IsoShape(s) /\ ValidYMD(y, m, d) /\ InTimestampYears(y) THEN {Date(y, m, d)}
        ELSE IF Count(s, Digits) = 0 THEN {None}
        ELSE {None} \cup UnspecifiedDates

\* the pattern branch reading the groups as (month, day) whatever day_first is
DayMonthSwapped(g, day_first) == <<g[2], g[1]>>

\* d, mo = (g1, g2) if day_first else (g2, g1)
DayMonth(g, day_first) == IF day_first THEN <<g[1], g[2]>> ELSE <<g[2], g[1]>>

\* if y < 100: y += 2000
FullYear(y) == IF y < 100 THEN y + 2000 ELSE y

\* _parse_date(val, day_first): the <<result, return statement>> pairs the
\* call can end with
parse_date(val, day_first) ==
    IF val.kind \in {"none", "nan"} THEN {<<None, "absent">>}
    ELSE
        LET s == Strip(val.s)
            g == MatchDMY(s)
        IN  IF s = <<>> THEN {<<None, "empty">>}
            ELSE IF g # <<>>
            THEN {<<r, "pattern">> :
                    r \in TimestampOutcomes(FullYear(g[3]),
                                            DayMonth(g, day_first)[2],
                                            DayMonth(g, day_first)[1])}
            ELSE {<<r, "general">> : r \in GeneralParserOutcomes(val.s)}

(***************************************************************************)
(* The dates given to _parse_date: every text of at most MaxDateTokens     *)
(* tokens, the examples of the documentation and of the tests, and the     *)
(* absent values.                                                          *)
(***************************************************************************)
MaxDateTokens == 5

DateTokens ==
    { <<"0", "1">>, <<"1", "2">>, <<"3", "1">>, <<"0", "2">>,
      <<"2", "0", "2", "5">>, <<"/">>, <<"-">>, <<"x">> }

RECURSIVE Flatten(_)
Flatten(ts) == IF ts = <<>> THEN <<>> ELSE Head(ts) \o Flatten(Tail(ts))

DateExamples ==
    { <<"1", "5", "/", "0", "6", "/", "2", "5">>,
      <<"3", "2", "/", "0", "1", "/", "2", "0", "2", "5">>,
      <<"2", "9", "/", "0", "2", "/", "2", "0", "2", "4">>,
      <<" ", "1", "/", "2", "/", "2", "5", " ">>,
      <<"n", "o", "t", "-", "a", "-", "d", "a", "t", "e">>,
      <<" ", " ">> }

DateInputs ==
    {None, NaN}
        \cup {Str(Flatten(ts)) : ts \in AllStrings(DateTokens, MaxDateTokens)}
        \cup {Str(s) : s \in DateExamples}

InitDate ==
    /\ call \in {[fn |-> "parse_date", arg |-> a, day_first |-> df] :
                    a \in DateInputs, df \in BOOLEAN}
    /\ ret = Pending
    /\ path = "none"
    /\ PipelineIdle

CallParseDate ==
    /\ call.fn = "parse_date"
    /\ ret = Pending
    /\ \E o \in parse_date(call.arg, call.day_first) :
          /\ ret' = o[1]
          /\ path' = o[2]
    /\ UNCHANGED <<call, pipeline>>

NextDate == CallParseDate

SpecDate == InitDate /\ [][NextDate]_vars

(***************************************************************************)
(* Header resolution: _normalize_header, _map_headers,                     *)
(* _fallback_column_map, _transaction_map_complete.                        *)
(***************************************************************************)
\* texts are lower case; a character outside ASCII is written as its code point
DATE_ALIASES ==
    <<
      <<"d", "a", "t", "e">>,
      <<"n", "g", "U+00E0", "y">>,
      <<"n", "g", "a", "y">>,
      <<"n", "g", "U+00E0", "y", " ", "g", "i", "a", "o", " ", "d", "U+1ECB", "c", "h">>,
      <<"t", "r", "a", "n", "s", "a", "c", "t", "i", "o", "n", " ", "d", "a", "t", "e">> >>

DESC_ALIASES ==
    <<
      <<"d", "e", "s", "c", "r", "i", "p", "t", "i", "o", "n">>,
      <<"n", "U+1ED9", "i", " ", "d", "u", "n", "g">>,
      <<"n", "o", "i", " ", "d", "u", "n", "g">>,
      <<"d", "i", "U+1EC5", "n", " ", "g", "i", "U+1EA3", "i">>,
      <<"d", "i", "e", "n", " ", "g", "i", "a", "i">>,
      <<"d", "e", "t", "a", "i", "l", "s">>,
      <<"c", "h", "i", " ", "t", "i", "U+1EBF", "t">>,
      <<"c", "h", "i", " ", "t", "i", "e", "t">>,
      <<"c", "o", "n", "t", "e", "n", "t">> >>

REMITTER_ALIASES ==
    <<
      <<"r", "e", "m", "i", "t", "t", "e", "r">>,
      <<"U+0111", "U+1ED1", "i", " ", "t", "U+00E1", "c">>,
      <<"d", "o", "i", " ", "t", "a", "c">>,
      <<"p", "a", "r", "t", "n", "e", "r">>,
      <<"n", "g", "U+01B0", "U+1EDD", "i", " ", "c", "h", "u", "y", "U+1EC3", "n">>,
      <<"n", "g", "u", "o", "i", " ", "c", "h", "u", "y", "e", "n">> >>

REMITTER_BANK_INDICATORS ==
    <<
      <<"r", "e", "m", "i", "t", "t", "e", "r", " ", "b", "a", "n", "k">>,
      <<"n", "h", " ", "U+0111", "U+1ED1", "i", " ", "t", "U+00E1", "c">>,
      <<"n", "h", " ", "d", "o", "i", " ", "t", "a", "c">>,
      <<"n", "g", "U+00E2", "n", " ", "h", "U+00E0", "n", "g", " ", "U+0111", "U+1ED1", "i", " ", "t", "U+00E1", "c">>,
      <<"n", "g", "a", "n", " ", "h", "a", "n", "g", " ", "d", "o", "i", " ", "t", "a", "c">> >>

DEBIT_ALIASES ==
    <<
      <<"d", "e", "b", "i", "t">>,
      <<"g", "h", "i", " ", "n", "U+1EE3">>,
      <<"g", "h", "i", " ", "n", "o">>,
      <<"s", "U+1ED1", " ", "t", "i", "U+1EC1", "n", " ", "g", "h", "i", " ", "n", "U+1EE3">>,
      <<"o", "u", "t", "f", "l", "o", "w">>,
      <<"p", "h", "U+00E1", "t", " ", "s", "i", "n", "h", " ", "n", "U+1EE3">>,
      <<"p", "h", "a", "t", " ", "s", "i", "n", "h", " ", "n", "o">>,
      <<"g", "h", "i", " ", "n", "U+1EE3", " ", "(", "v", "n", "U+0111", ")">>,
      <<"n", "U+1EE3", " ", "t", "k", "t", "t">> >>

CREDIT_ALIASES ==
    <<
      <<"c", "r", "e", "d", "i", "t">>,
      <<"g", "h", "i", " ", "c", "U+00F3">>,
      <<"g", "h", "i", " ", "c", "o">>,
      <<"s", "U+1ED1", " ", "t", "i", "U+1EC1", "n", " ", "g", "h", "i", " ", "c", "U+00F3">>,
      <<"i", "n", "f", "l", "o", "w">>,
      <<"p", "h", "U+00E1", "t", " ", "s", "i", "n", "h", " ", "c", "U+00F3">>,
      <<"p", "h", "a", "t", " ", "s", "i", "n", "h", " ", "c", "o">>,
      <<"g", "h", "i", " ", "c", "U+00F3", " ", "(", "v", "n", "U+0111", ")">>,
      <<"c", "U+00F3", " ", "t", "k", "t", "t">> >>

\* str.lower() on the letters that the texts of the model use
UpperCase ==
    << "A", "B", "C", "D", "E", "F", "G", "H", "I", "J", "K", "L", "M", "N",
       "O", "P", "Q", "R", "S", "T", "U", "V", "W", "X", "Y", "Z", "U+0110" >>

LowerCase ==
    << "a", "b", "c", "d", "e", "f", "g", "h", "i", "j", "k", "l", "m", "n",
       "o", "p", "q", "r", "s", "t", "u", "v", "w", "x", "y", "z", "U+0111" >>

Lower(c) ==
    IF \E k \in 1..Len(UpperCase) : UpperCase[k] = c
    THEN LowerCase[CHOOSE k \in 1..Len(UpperCase) : UpperCase[k] = c]
    ELSE c

LowerText(s) == [j \in 1..Len(s) |-> Lower(s[j])]

\* re.sub(r"\s+", " ", s)
RECURSIVE CollapseSpaces(_)
CollapseSpaces(s) ==
    IF s = <<>> THEN <<>>
    ELSE IF Head(s) \in Whitespace
    THEN <<" ">> \o CollapseSpaces(LStrip(Tail(s), Whitespace))
    ELSE <<Head(s)>> \o CollapseSpaces(Tail(s))

\* _normalize_header(h): the empty text for an absent or blank cell
normalize_header(h) ==
    IF h.kind = "none" THEN <<>>
    ELSE IF Strip(h.s) = <<>> THEN <<>>
    ELSE CollapseSpaces(LowerText(Strip(h.s)))

\* a in n, for texts
Contains(n, a) ==
    \E k \in 0..(Len(n) - Len(a)) : SubSeq(n, k + 1, k + Len(a)) = a

\* any(a in n for a in aliases)
AnyAlias(n, aliases) == \E k \in 1..Len(aliases) : Contains(n, aliases[k])

\* a test that takes no header for the bank of the remitter
no_remitter_bank_header(n) == FALSE

is_remitter_bank_header(n) == AnyAlias(n, REMITTER_BANK_INDICATORS)

\* the alias families in the order _map_headers tries them
AliasFamilies ==
    << <<DATE_ALIASES, "Date">>,
       <<DESC_ALIASES, "Description">>,
       <<REMITTER_ALIASES, "Remitter">>,
       <<DEBIT_ALIASES, "Debit">>,
       <<CREDIT_ALIASES, "Credit">> >>

\* a resolver in which the last family that takes the header wins
RECURSIVE StandardNameLatest(_, _)
StandardNameLatest(n, k) ==
    IF k > Len(AliasFamilies) THEN ""
    ELSE LET later == StandardNameLatest(n, k + 1)
         IN  IF later # "" THEN later
             ELSE IF /\ AnyAlias(n, AliasFamilies[k][1])
                     /\ ~(AliasFamilies[k][2] = "Remitter" /\ is_remitter_bank_header(n))
             THEN AliasFamilies[k][2]
             ELSE ""

\* the inner loop of _map_headers from family k on: the standard name of the
\* normalized header n, or "" when no family takes it
RECURSIVE StandardNameFrom(_, _)
StandardNameFrom(n, k) ==
    IF k > Len(AliasFamilies) THEN ""
    ELSE IF /\ AnyAlias(n, AliasFamilies[k][1])
            /\ ~(AliasFamilies[k][2] = "Remitter" /\ is_remitter_bank_header(n))
    THEN AliasFamilies[k][2]
    ELSE StandardNameFrom(n, k + 1)

StandardName(h) ==
    LET n == normalize_header(h)
    IN  IF n = <<>> THEN "" ELSE StandardNameFrom(n, 1)

\* a column map is a function from zero-based column indices to standard
\* names; the map with no entry also stands for None, which the source only
\* ever tests for truth
NoMap == [i \in {} |-> ""]

\* _map_headers(headers)
map_headers(headers) ==
    LET names == [j \in 1..Len(headers) |-> StandardName(headers[j])]
    IN  [i \in {j \in 0..(Len(headers) - 1) : names[j + 1] # ""} |-> names[i + 1]]

FallbackNames == <<"Date", "Description", "Debit", "Credit">>

\* a positional map that stops before Credit
fallback_three_columns(headers) ==
    [i \in 0..(Min(Len(headers), 3) - 1) |-> FallbackNames[i + 1]]

\* _fallback_column_map(headers)
fallback_column_map(headers) ==
    [i \in 0..(Min(Len(headers), Len(FallbackNames)) - 1) |-> FallbackNames[i + 1]]

MapValues(col_map) == {col_map[i] : i \in DOMAIN col_map}

\* a completeness test that asks for Date only
transaction_map_has_date(col_map) == "Date" \in MapValues(col_map)

\* _transaction_map_complete(col_map)
transaction_map_complete(col_map) ==
    "Date" \in MapValues(col_map) /\ "Debit" \in MapValues(col_map)

\* _first_row_looks_like_data(headers)
first_row_looks_like_data(headers) ==
    /\ headers # <<>>
    /\ headers[1].kind = "str"
    /\ headers[1].s # <<>>
    /\ MatchDMY(Strip(headers[1].s)) # <<>>

(***************************************************************************)
(* Table selection: _looks_like_header_row, _score_table_as_transactions,  *)
(* _extract_table_from_page.  A score is kept doubled, so that the half    *)
(* point per data row is an integer.                                       *)
(***************************************************************************)
NumericChars == Digits \cup Separators \cup Whitespace \cup {"-"}

\* s and re.match(r"^[\d.,\s\-]+$", s), for the stripped text of a cell
IsNumericCell(cell) ==
    /\ cell.kind = "str"
    /\ Strip(cell.s) # <<>>
    /\ \A j \in 1..Len(Strip(cell.s)) : Strip(cell.s)[j] \in NumericChars

\* _looks_like_header_row(row)
looks_like_header_row(row) ==
    /\ row # <<>>
    /\ Cardinality({j \in 1..Len(row) : IsNumericCell(row[j])}) <= Len(row) \div 2

\* a score that counts every data row
score_without_cap(raw_table) ==
    IF Len(raw_table) < 2 THEN 0
    ELSE IF Len(raw_table[1]) < 2 THEN 0
    ELSE (IF looks_like_header_row(raw_table[1]) THEN 20 ELSE 0)
         + (IF Len(raw_table[1]) >= 3 THEN 10 ELSE 4)
         + (Len(raw_table) - 1)

\* _score_table_as_transactions(raw_table), doubled
score_table_as_transactions(raw_table) ==
    IF Len(raw_table) < 2 THEN 0
    ELSE IF Len(raw_table[1]) < 2 THEN 0
    ELSE (IF looks_like_header_row(raw_table[1]) THEN 20 ELSE 0)
         + (IF Len(raw_table[1]) >= 3 THEN 10 ELSE 4)
         + Min(Len(raw_table) - 1, 20)

\* (len(t), ncols) > fallback_size, on tuples
SizeGreater(a, b) == a[1] > b[1] \/ (a[1] = b[1] /\ a[2] > b[2])

\* a loop that takes every eligible table as the best so far
TakeLatest(t, score, st) == [st EXCEPT !.best_table = t, !.best_score = score]

\* if score > best_score: best_score, best_table = score, t
TakeBest(t, score, st) ==
    IF score > st.best_score
    THEN [st EXCEPT !.best_table = t, !.best_score = score]
    ELSE st

\* if (len(t), ncols) > fallback_size: fallback_size, fallback_table = ...
TakeFallback(t, st) ==
    IF SizeGreater(<<Len(t), Len(t[1])>>, st.fallback_size)
    THEN [st EXCEPT !.fallback_table = t, !.fallback_size = <<Len(t), Len(t[1])>>]
    ELSE st

\* the body of the loop of _extract_table_from_page for the table t, from the
\* state st = [best_table, best_score, fallback_table, fallback_size]
ConsiderTable(t, st) ==
    IF Len(t) < 2 THEN st
    ELSE IF Len(t[1]) < 2 THEN st
    ELSE TakeFallback(t, TakeBest(t, score_table_as_transactions(t), st))

\* the loop over tables[k..]
RECURSIVE SelectFrom(_, _, _)
SelectFrom(tables, k, st) ==
    IF k > Len(tables) THEN st
    ELSE SelectFrom(tables, k + 1, ConsiderTable(tables[k], st))

\* return best_table if best_table else fallback_table
BestOrFallback(st) ==
    IF st.best_table # <<>> THEN st.best_table ELSE st.fallback_table

\* _extract_table_from_page(page), page.extract_tables() being tables
extract_table_from_page(tables) ==
    BestOrFallback(SelectFrom(tables, 1,
                              [best_table |-> <<>>, best_score |-> 0,
                               fallback_table |-> <<>>, fallback_size |-> <<0, 0>>]))

(***************************************************************************)
(* Rows: _table_to_rows and the normalization at the end of                *)
(* extract_transactions_from_pdf.                                          *)
(***************************************************************************)
\* (list(r) + [None] * (ncols - len(r)))[:ncols]
PadRow(r, ncols) == [j \in 1..ncols |-> IF j <= Len(r) THEN r[j] ELSE None]

\* the dict one row gives under col_map: a later column of the same name
\* overwrites an earlier one
RowDict(r, ncols, col_map) ==
    LET used == {i \in DOMAIN col_map : i < ncols /\ col_map[i] # ""}
    IN  [name \in {col_map[i] : i \in used}
            |-> PadRow(r, ncols)[1 + CHOOSE i \in used :
                    /\ col_map[i] = name
                    /\ \A j \in used : col_map[j] = name => j <= i]]

\* the rows _table_to_rows emits for the rows k.. of raw_table
RECURSIVE RowsFrom(_, _, _)
RowsFrom(raw_table, k, col_map) ==
    IF k > Len(raw_table) THEN <<>>
    ELSE LET row == RowDict(raw_table[k], Len(raw_table[1]), col_map)
         IN  (IF raw_table[k] # <<>> /\ DOMAIN row # {} THEN <<row>> ELSE <<>>)
                \o RowsFrom(raw_table, k + 1, col_map)

\* _table_to_rows(raw_table, col_map): it walks raw_table[1:]
table_to_rows(raw_table, col_map) ==
    IF raw_table = <<>> \/ DOMAIN col_map = {} THEN <<>>
    ELSE RowsFrom(raw_table, 2, col_map)

(***************************************************************************)
(* The documents given to the pipeline.  A page is what                    *)
(* page.extract_tables() returns for it: a sequence of tables, a table a   *)
(* sequence of rows, a row a sequence of cells.  The header and the rows   *)
(* of PageWithHeader and PageContinuation are those of                     *)
(* test_continuation_page_header_reuse.                                    *)
(***************************************************************************)
\* the header of the bank statements: "Ngay giao dich", "Doi tac", "Dien giai", "No TKTT", "Co TKTT" with their diacritics
HeaderVietnamese ==
    << Str(<<"N", "g", "U+00E0", "y", " ", "g", "i", "a", "o", " ", "d", "U+1ECB", "c", "h">>),
       Str(<<"U+0110", "U+1ED1", "i", " ", "t", "U+00E1", "c">>),
       Str(<<"D", "i", "U+1EC5", "n", " ", "g", "i", "U+1EA3", "i">>),
       Str(<<"N", "U+1EE3", " ", "T", "K", "T", "T">>),
       Str(<<"C", "U+00F3", " ", "T", "K", "T", "T">>) >>

\* a header that names only its first and its last column
HeaderGapped ==
    << Str(<<"D", "a", "t", "e">>),
       Str(<<"S", "T", "T">>),
       Str(<<"S", "T", "T">>),
       Str(<<"D", "e", "b", "i", "t">>) >>

\* a header of three columns that no alias matches
HeaderUnknown ==
    << Str(<<"S", "T", "T">>),
       Str(<<"A">>),
       Str(<<"B">>) >>

\* a header of five columns of which only the first is recognized
HeaderDateOnly ==
    << Str(<<"N", "g", "a", "y">>),
       Str(<<"A">>),
       Str(<<"B">>),
       Str(<<"C">>),
       Str(<<"D">>) >>

\* data rows of five columns: date, partner, description, debit, credit
RowPartnerA ==
    << Str(<<"0", "1", "/", "1", "2", "/", "2", "0", "2", "5">>),
       Str(<<"P", "a", "r", "t", "n", "e", "r", " ", "A">>),
       Str(<<"P", "a", "y", "m", "e", "n", "t", " ", "1">>),
       Str(<<"1", "0", "0", ",", "0", "0", "0">>),
       Str(<<>>) >>

RowPartnerB ==
    << Str(<<"0", "2", "/", "1", "2", "/", "2", "0", "2", "5">>),
       Str(<<"P", "a", "r", "t", "n", "e", "r", " ", "B">>),
       Str(<<"P", "a", "y", "m", "e", "n", "t", " ", "2">>),
       Str(<<"2", "0", "0", ",", "0", "0", "0">>),
       Str(<<>>) >>

RowPartnerC ==
    << Str(<<"0", "3", "/", "1", "2", "/", "2", "0", "2", "5">>),
       Str(<<"P", "a", "r", "t", "n", "e", "r", " ", "C">>),
       Str(<<"P", "a", "y", "m", "e", "n", "t", " ", "3">>),
       Str(<<"3", "0", "0", ",", "0", "0", "0">>),
       Str(<<>>) >>

\* RowPartnerA from another partner
RowPartnerZ ==
    << Str(<<"0", "1", "/", "1", "2", "/", "2", "0", "2", "5">>),
       Str(<<"P", "a", "r", "t", "n", "e", "r", " ", "Z">>),
       Str(<<"P", "a", "y", "m", "e", "n", "t", " ", "1">>),
       Str(<<"1", "0", "0", ",", "0", "0", "0">>),
       Str(<<>>) >>

\* a row with a credit and no debit
RowCreditOnly ==
    << Str(<<"0", "8", "/", "1", "2", "/", "2", "0", "2", "5">>),
       Str(<<"P", "a", "r", "t", "n", "e", "r", " ", "D">>),
       Str(<<"S", "a", "l", "a", "r", "y">>),
       Str(<<>>),
       Str(<<"2", "0", "0", ",", "0", "0", "0">>) >>

\* a row with a negative debit
RowRefund ==
    << Str(<<"0", "9", "/", "1", "2", "/", "2", "0", "2", "5">>),
       Str(<<"P", "a", "r", "t", "n", "e", "r", " ", "E">>),
       Str(<<"R", "e", "f", "u", "n", "d">>),
       Str(<<"-", "3", "0", ",", "0", "0", "0">>),
       Str(<<>>) >>

\* a row whose date cell is not a date
RowBadDate ==
    << Str(<<"x">>),
       Str(<<"P", "a", "r", "t", "n", "e", "r", " ", "F">>),
       Str(<<"P", "a", "y", "m", "e", "n", "t", " ", "6">>),
       Str(<<"1", "0", ".", "5">>),
       Str(<<>>) >>

\* a row whose partner and description have blanks around them
RowPadded ==
    << Str(<<"1", "0", "/", "1", "2", "/", "2", "0", "2", "5">>),
       Str(<<" ", "P", "a", "r", "t", "n", "e", "r", " ", "G", " ">>),
       Str(<<" ", " ", "C", "o", "f", "f", "e", "e", " ", " ">>),
       Str(<<"4", "5", ",", "0", "0", "0">>),
       Str(<<>>) >>

\* a row whose partner is the text "NaN" and whose description is " None "
RowNanText ==
    << Str(<<"1", "1", "/", "1", "2", "/", "2", "0", "2", "5">>),
       Str(<<"N", "a", "N">>),
       Str(<<" ", "N", "o", "n", "e", " ">>),
       Str(<<"5", ",", "0", "0", "0">>),
       Str(<<>>) >>

\* a row whose debit cell is not an amount
RowBadDebit ==
    << Str(<<"1", "2", "/", "1", "2", "/", "2", "0", "2", "5">>),
       Str(<<"P", "a", "r", "t", "n", "e", "r", " ", "H">>),
       Str(<<"P", "a", "y", "m", "e", "n", "t", " ", "8">>),
       Str(<<"a", "b", "c">>),
       Str(<<>>) >>

\* a row with a debit whose credit cell is not an amount
RowBadCredit ==
    << Str(<<"1", "3", "/", "1", "2", "/", "2", "0", "2", "5">>),
       Str(<<"P", "a", "r", "t", "n", "e", "r", " ", "I">>),
       Str(<<"P", "a", "y", "m", "e", "n", "t", " ", "9">>),
       Str(<<"7", "0", ",", "0", "0", "0">>),
       Str(<<"n", "/", "a">>) >>

\* a row that starts like a date of a day that does not exist
RowInvalidDate ==
    << Str(<<"3", "2", "/", "0", "1", "/", "2", "0", "2", "5">>),
       Str(<<"P", "a", "r", "t", "n", "e", "r", " ", "J">>),
       Str(<<"P", "a", "y", "m", "e", "n", "t", " ", "1", "0">>),
       Str(<<"8", "0", ",", "0", "0", "0">>),
       Str(<<>>) >>

\* a row that extraction gave fewer cells than the header has
RowShort ==
    << Str(<<"1", "0", "/", "1", "2", "/", "2", "0", "2", "5">>),
       Str(<<"P", "a", "y", "m", "e", "n", "t", " ", "7">>) >>

\* a data row of four columns under HeaderGapped
RowGapped ==
    << Str(<<"0", "4", "/", "1", "2", "/", "2", "0", "2", "5">>),
       Str(<<"1">>),
       Str(<<"x">>),
       Str(<<"2", "0">>) >>

\* data rows of three columns: date, description, debit
RowNarrowA ==
    << Str(<<"0", "5", "/", "1", "2", "/", "2", "0", "2", "5">>),
       Str(<<"s", "h", "o", "p">>),
       Str(<<"9">>) >>

RowNarrowB ==
    << Str(<<"0", "6", "/", "1", "2", "/", "2", "0", "2", "5">>),
       Str(<<"c", "a", "f", "e">>),
       Str(<<"8">>) >>

\* the two rows of a fee table
RowFee ==
    << Str(<<"F", "e", "e">>),
       Str(<<"1">>) >>

RowVat ==
    << Str(<<"V", "A", "T">>),
       Str(<<"2">>) >>

PageWithHeader == << <<HeaderVietnamese, RowPartnerA>> >>

PageContinuation == << <<RowPartnerB, RowPartnerC>> >>

PageNoTables == <<>>

PageGapped == << <<HeaderGapped, RowGapped>> >>

PageNarrow == << <<RowNarrowA, RowNarrowB>> >>

PageMixed ==
    << <<HeaderVietnamese, RowCreditOnly, RowPartnerA, RowPartnerZ, RowRefund,
         RowBadDate, RowPadded, RowNanText, RowBadDebit, RowBadCredit, RowShort>> >>

PageFeeAndTransactions == << <<RowFee, RowVat>>, <<HeaderVietnamese, RowPartnerB>> >>

PageUnknownHeader == << <<HeaderUnknown, RowNarrowA>> >>

PageDateOnlyHeader == << <<HeaderDateOnly, RowPartnerC>> >>

PageHeaderAlone == << <<HeaderVietnamese>> >>

\* a header whose map has three entries and spans four columns
HeaderSparse ==
    << Str(<<"D", "a", "t", "e">>),
       Str(<<"D", "e", "b", "i", "t">>),
       Str(<<"S", "T", "T">>),
       Str(<<"C", "r", "e", "d", "i", "t">>) >>

\* a data row under HeaderSparse
RowSparse ==
    << Str(<<"0", "7", "/", "1", "2", "/", "2", "0", "2", "5">>),
       Str(<<"6", "0">>),
       Str(<<"x">>),
       Str(<<>>) >>

PageSparse == << <<HeaderSparse, RowSparse>> >>

\* a page without header as wide as HeaderSparse
PageSparseContinuation == << <<RowSparse, RowSparse>> >>

\* a page without header that begins with RowInvalidDate
PageInvalidDateFirst == << <<RowInvalidDate, RowPartnerC>> >>

PageVocab ==
    { PageWithHeader, PageContinuation, PageNoTables, PageGapped, PageNarrow,
      PageMixed, PageFeeAndTransactions, PageUnknownHeader, PageDateOnlyHeader,
      PageHeaderAlone }

\* a document is what the batch holds for one file: bytes that pdfplumber
\* opens into pages ("pdf"), bytes it cannot open ("corrupt"), b"" ("empty")
\* or a value that is not bytes ("none"), with the declared source type
Pdf(pages, source_type) == [kind |-> "pdf", pages |-> pages, source_type |-> source_type]

NotPdf(kind) == [kind |-> kind, pages |-> <<>>, source_type |-> "checking"]

\* a PDF that opens, whose pages are read one after another, and whose page
\* after these raises when its tables are extracted
PdfBroken(pages, source_type) ==
    [kind |-> "broken", pages |-> pages, source_type |-> source_type]

DocVocab ==
    { Pdf(<<PageWithHeader, PageContinuation>>, "checking"),
      Pdf(<<PageWithHeader, PageContinuation>>, "credit_card"),
      Pdf(<<PageMixed>>, "checking"),
      Pdf(<<PageFeeAndTransactions>>, "checking"),
      Pdf(<<PageNoTables>>, "checking"),
      NotPdf("corrupt"), NotPdf("empty"), NotPdf("none"), NotPdf("str") }

\* a document with a header, then a document that begins without one
HeaderlessAfterHeaded ==
    << Pdf(<<PageWithHeader, PageContinuation>>, "checking"),
       Pdf(<<PageContinuation>>, "checking") >>

\* batches with a file that breaks on its first or on its second page
BrokenBatches ==
    { << PdfBroken(<<PageWithHeader>>, "checking"),
         Pdf(<<PageContinuation>>, "checking") >>,
      << Pdf(<<PageWithHeader, PageContinuation>>, "checking"),
         PdfBroken(<<>>, "checking") >>,
      << PdfBroken(<<>>, "checking"), NotPdf("corrupt") >> }

MaxFiles == 2

MaxPages == 3

SeqsUpTo(S, n) == UNION {[1..k -> S] : k \in 0..n}

\* the batches: up to MaxFiles documents of DocVocab, and one document of up
\* to MaxPages pages of PageVocab
Batches ==
    SeqsUpTo(DocVocab, MaxFiles)
        \cup {<<Pdf(pages, "checking")>> : pages \in SeqsUpTo(PageVocab, MaxPages)}
        \cup {HeaderlessAfterHeaded}
        \cup BrokenBatches

(***************************************************************************)
(* extract_transactions_from_pdf: the body of the loop over the pages.     *)
(***************************************************************************)
\* {i: last_col_map[i] for i in last_col_map if i < ncols}
RestrictMap(col_map, ncols) ==
    [k \in {j \in DOMAIN col_map : j < ncols} |-> col_map[k]]

\* len(col_map)
MapLen(col_map) == Cardinality(DOMAIN col_map)

\* the test of the continuation branch with > in place of >=
is_continuation_strict(last, ncols, headers) ==
    /\ DOMAIN last # {}
    /\ ncols > MapLen(last)
    /\ first_row_looks_like_data(headers)

\* last_col_map and ncols >= len(last_col_map)
\*     and _first_row_looks_like_data(headers)
is_continuation(last, ncols, headers) ==
    /\ DOMAIN last # {}
    /\ ncols >= MapLen(last)
    /\ first_row_looks_like_data(headers)

\* _map_headers(headers) or _fallback_column_map(headers)
resolve_headers(headers) ==
    LET mapped == map_headers(headers)
    IN  IF DOMAIN mapped # {} THEN mapped ELSE fallback_column_map(headers)

\* a loop that never goes back to the previous map for a header it resolved
BranchWithoutReuse(last, headers) ==
    IF is_continuation(last, Len(headers), headers) THEN "continuation" ELSE "fresh"

\* the branch the loop takes for a table with these headers
BranchOf(last, headers) ==
    IF is_continuation(last, Len(headers), headers) THEN "continuation"
    ELSE IF /\ DOMAIN last # {}
            /\ Len(headers) >= MapLen(last)
            /\ ~transaction_map_complete(resolve_headers(headers))
    THEN "reuse"
    ELSE "fresh"

\* col_map before the completeness test
AppliedMap(branch, last, headers) ==
    IF branch = "fresh" THEN resolve_headers(headers)
    ELSE RestrictMap(last, Len(headers))

\* not (not col_map or not _transaction_map_complete(col_map))
Accepted(col_map) == DOMAIN col_map # {} /\ transaction_map_complete(col_map)

\* an iteration that forgets last_col_map when it skips the page
StepRecordForgetful(branch, raw, last, col_map, accepted) ==
    [ branch |-> branch,
      resolved |-> branch \in {"reuse", "fresh"},
      raw |-> raw,
      prev |-> last,
      col_map |-> col_map,
      accepted |-> accepted,
      rows |-> IF accepted THEN table_to_rows(raw, col_map) ELSE <<>>,
      last |-> IF accepted THEN col_map ELSE NoMap ]

\* what one iteration did: the branch taken, whether it resolved a header,
\* the table, last_col_map before, the map applied, whether the page passed
\* the completeness test, the rows appended and last_col_map after
StepRecord(branch, raw, last, col_map, accepted) ==
    [ branch |-> branch,
      resolved |-> branch \in {"reuse", "fresh"},
      raw |-> raw,
      prev |-> last,
      col_map |-> col_map,
      accepted |-> accepted,
      rows |-> IF accepted THEN table_to_rows(raw, col_map) ELSE <<>>,
      last |-> IF accepted THEN col_map ELSE last ]

StepWithMap(branch, raw, last, col_map) ==
    StepRecord(branch, raw, last, col_map, Accepted(col_map))

StepWithBranch(branch, raw, last) ==
    StepWithMap(branch, raw, last, AppliedMap(branch, last, raw[1]))

\* the iteration from "if not raw" on
StepOnTable(raw, last) ==
    IF raw = <<>> THEN StepRecord("no_table", raw, last, NoMap, FALSE)
    ELSE StepWithBranch(BranchOf(last, raw[1]), raw, last)

\* one iteration of the loop for a page whose tables are given, last being
\* last_col_map before it
page_step(tables, last) == StepOnTable(extract_table_from_page(tables), last)

(***************************************************************************)
(* extract_transactions_from_pdf: from all_rows to the frame returned.     *)
(* The rename of the columns is the identity, the keys of a row being      *)
(* standard names already.                                                 *)
(***************************************************************************)
TRANSACTION_COLUMNS == <<"Date", "Description", "Debit", "Credit", "SourceType">>

Range(f) == {f[k] : k \in DOMAIN f}

\* pd.DataFrame(columns=TRANSACTION_COLUMNS)
EmptyFrame == [columns |-> TRANSACTION_COLUMNS, rows |-> <<>>]

\* the cell of row r in column col of pd.DataFrame(all_rows): NaN where r
\* has no such key, None where no row has it (df[col] = None)
FrameCell(rows, r, col) ==
    IF col \in DOMAIN r THEN r[col]
    ELSE IF \E k \in 1..Len(rows) : col \in DOMAIN rows[k] THEN NaN
    ELSE None

\* _str_col(x)
str_col(x) ==
    IF x.kind \in {"none", "nan"} THEN Str(<<>>)
    ELSE IF LowerText(Strip(x.s)) \in {<<"n", "a", "n">>, <<"n", "o", "n", "e">>}
    THEN Str(<<>>)
    ELSE Str(x.s)

\* what _parse_date can give for each of the rows k.. (day_first keeps its
\* default, True)
RECURSIVE DateChoices(_, _)
DateChoices(rows, k) ==
    IF k > Len(rows) THEN {<<>>}
    ELSE {<<o[1]>> \o rest :
            o \in parse_date(FrameCell(rows, rows[k], "Date"), TRUE),
            rest \in DateChoices(rows, k + 1)}

\* the row of the frame after the columns were parsed and SourceType set
NormalizedRow(rows, r, date, source_type) ==
    [ Date |-> date,
      Description |-> str_col(FrameCell(rows, r, "Description")),
      Remitter |-> str_col(FrameCell(rows, r, "Remitter")),
      Debit |-> parse_vnd_amount(FrameCell(rows, r, "Debit")),
      Credit |-> parse_vnd_amount(FrameCell(rows, r, "Credit")),
      SourceType |-> source_type ]

NonZeroDebit(r) == r.Debit # Num(0)

\* df[df["Debit"] != 0] with SourceType, before the projection
KeptRows(rows, dates, source_type) ==
    SelectSeq([k \in 1..Len(rows) |->
                  NormalizedRow(rows, rows[k], dates[k], source_type)],
              NonZeroDebit)

\* df[list(TRANSACTION_COLUMNS)], for one row
Project(r) == [c \in Range(TRANSACTION_COLUMNS) |-> r[c]]

ProjectRows(rows) == [k \in 1..Len(rows) |-> Project(rows[k])]

(***************************************************************************)
(* load_pdfs_to_dataframe                                                  *)
(***************************************************************************)
\* a drop_duplicates that drops a row only when the row before it is equal
drop_adjacent_duplicates(rows) ==
    SelectSeq([k \in 1..Len(rows) |-> [at |-> k, row |-> rows[k]]],
              LAMBDA e : e.at = 1 \/ rows[e.at - 1] # e.row)

\* out.drop_duplicates(subset=subset, keep="first"), subset being every
\* column of out: as a sequence of [at, row], at the place of the row in out
drop_duplicates(rows) ==
    SelectSeq([k \in 1..Len(rows) |-> [at |-> k, row |-> rows[k]]],
              LAMBDA e : \A j \in 1..(e.at - 1) : rows[j] # e.row)

RowsOf(entries) == [k \in 1..Len(entries) |-> entries[k].row]

\* a concatenation that puts the frames of later files first
RECURSIVE ConcatLatestFirst(_)
ConcatLatestFirst(frames) ==
    IF frames = <<>> THEN <<>> ELSE ConcatLatestFirst(Tail(frames)) \o Head(frames).rows

\* pd.concat(dfs, ignore_index=True), on the rows
RECURSIVE Concat(_)
Concat(frames) ==
    IF frames = <<>> THEN <<>> ELSE Head(frames).rows \o Concat(Tail(frames))

\* a batch that stops at the first file that fails
abort_after_failure(k, n) == n

\* the index of the file the loop takes up after file k failed (continue)
next_after_failure(k, n) == k + 1

\* an exception: its type's name and str(e), a text in pieces
Error(exc, msg) == [exc |-> exc, msg |-> msg]

\* what pdfplumber.open raises on bytes that are no PDF
OpenErrors ==
    { Error("PDFSyntaxError", <<"No /Root object! - Is this really a PDF?">>),
      Error("PDFSyntaxError", <<>>) }

\* what reading the tables of a damaged page raises
PageErrors ==
    { Error("RuntimeError", <<" ", "Corrupted PDF", " ">>),
      Error("PSEOF", <<" ">>) }

\* a message that is always the name of the exception's type
failure_kind_only(e) == <<e.exc>>

\* msg = str(e).strip() or type(e).__name__
failure_message(e) == IF Strip(e.msg) # <<>> THEN Strip(e.msg) ELSE <<e.exc>>

\* a handle that is released only when the loop over the pages ends normally
close_unless_raised(open, k, raised) == IF raised THEN open ELSE open \ {k}

\* leaving the with block of pdfplumber.open, normally or by an exception
close_handle(open, k, raised) == open \ {k}

\* type(pdf_bytes).__name__
TypeName(doc) ==
    CASE doc.kind = "none" -> "NoneType"
      [] doc.kind = "str" -> "str"
      [] OTHER -> "bytes"

\* not isinstance(pdf_bytes, bytes)
NotBytes(doc) == doc.kind \in {"none", "str"}

\* not pdf_bytes, for bytes
EmptyBytes(doc) == doc.kind = "empty"

RaiseWith(exc, msg) == [kind |-> "raise", exc |-> exc, msg |-> msg]

\* checks that raise ValueError for whatever they refuse
content_error_always_value(doc) ==
    IF NotBytes(doc) \/ EmptyBytes(doc)
    THEN RaiseWith("ValueError", <<"pdf_bytes must not be empty">>)
    ELSE Pending

\* the two checks at the head of extract_transactions_from_pdf: what they
\* raise, Pending when they let the content through
content_error(doc) ==
    IF NotBytes(doc)
    THEN RaiseWith("TypeError", <<"pdf_bytes must be bytes, got ", TypeName(doc)>>)
    ELSE IF EmptyBytes(doc)
    THEN RaiseWith("ValueError", <<"pdf_bytes must not be empty">>)
    ELSE Pending

\* the documents given to extract_transactions_from_pdf on its own
ExtractInputs ==
    {<<doc>> : doc \in DocVocab
                  \cup {Pdf(<<PageWithHeader, PageInvalidDateFirst>>, "checking"),
                        Pdf(<<PageSparse, PageNarrow, PageSparseContinuation>>, "checking"),
                        PdfBroken(<<PageWithHeader>>, "checking")}}

NoFrame == [kind |-> "none"]

Init ==
    /\ \/ call = [fn |-> "load_pdfs_to_dataframe"] /\ files \in Batches
       \/ call = [fn |-> "extract_transactions_from_pdf"] /\ files \in ExtractInputs
    /\ deduplicate \in BOOLEAN
    /\ pc = "load"
    /\ file_i = 0
    /\ pg = 0
    /\ last_col_map = NoMap
    /\ all_rows = <<>>
    /\ dfs = <<>>
    /\ failed = <<>>
    /\ out = NoFrame
    /\ extracted = <<>>
    /\ canon = <<>>
    /\ page_log = <<>>
    /\ handles = {}
    /\ rules = NoRules
    /\ ret = Pending
    /\ path = "none"

InBatch == call.fn = "load_pdfs_to_dataframe"

Direct == call.fn = "extract_transactions_from_pdf"

\* if not files: return pd.DataFrame(columns=TRANSACTION_COLUMNS), []
LoadEmpty ==
    /\ InBatch
    /\ pc = "load"
    /\ files = <<>>
    /\ out' = EmptyFrame
    /\ pc' = "done"
    /\ UNCHANGED <<call, ret, path, files, deduplicate, file_i, pg, last_col_map,
                   all_rows, dfs, failed, extracted, canon, page_log, handles, rules>>

\* a file that is not bytes or is empty
RejectFile ==
    /\ InBatch
    /\ pc = "load"
    /\ file_i < Len(files)
    /\ NotBytes(files[file_i + 1]) \/ EmptyBytes(files[file_i + 1])
    /\ failed' = Append(failed,
                        <<file_i, <<"Invalid or empty file (got ", TypeName(files[file_i + 1]), ")">> >>)
    /\ file_i' = next_after_failure(file_i, Len(files))
    /\ extracted' = Append(extracted, NoFrame)
    /\ canon' = Append(canon, <<>>)
    /\ page_log' = Append(page_log, <<>>)
    /\ UNCHANGED <<call, ret, path, files, deduplicate, pc, pg, last_col_map,
                   all_rows, dfs, out, handles, rules>>

\* pdfplumber.open raises: the except branch of the batch loop
OpenFails ==
    /\ InBatch
    /\ pc = "load"
    /\ file_i < Len(files)
    /\ files[file_i + 1].kind = "corrupt"
    /\ \E e \in OpenErrors : failed' = Append(failed, <<file_i, failure_message(e)>>)
    /\ file_i' = next_after_failure(file_i, Len(files))
    /\ extracted' = Append(extracted, NoFrame)
    /\ canon' = Append(canon, <<>>)
    /\ page_log' = Append(page_log, <<>>)
    /\ UNCHANGED <<call, ret, path, files, deduplicate, pc, pg, last_col_map,
                   all_rows, dfs, out, handles, rules>>

\* a loop that starts each document with the state of the loop before it
OpenDocumentKeepingMap ==
    /\ pc = "load"
    /\ file_i < Len(files)
    /\ files[file_i + 1].kind \in {"pdf", "broken"}
    /\ pc' = "pages"
    /\ pg' = 0
    /\ all_rows' = <<>>
    /\ last_col_map' = last_col_map
    /\ page_log' = Append(page_log, <<>>)
    /\ handles' = handles \cup {file_i}
    /\ UNCHANGED <<call, ret, path, files, deduplicate, file_i, dfs, failed, out,
                   extracted, canon, rules>>

\* extract_transactions_from_pdf up to the loop over the pages
OpenDocument ==
    /\ pc = "load"
    /\ file_i < Len(files)
    /\ files[file_i + 1].kind \in {"pdf", "broken"}
    /\ pc' = "pages"
    /\ pg' = 0
    /\ all_rows' = <<>>
    /\ last_col_map' = NoMap
    /\ page_log' = Append(page_log, <<>>)
    /\ handles' = handles \cup {file_i}
    /\ UNCHANGED <<call, ret, path, files, deduplicate, file_i, dfs, failed, out,
                   extracted, canon, rules>>

\* one page of the loop
ProcessPage ==
    /\ pc = "pages"
    /\ pg < Len(files[file_i + 1].pages)
    /\ \E step \in {page_step(files[file_i + 1].pages[pg + 1], last_col_map)} :
          /\ last_col_map' = step.last
          /\ all_rows' = all_rows \o step.rows
          /\ page_log' = [page_log EXCEPT ![file_i + 1] = Append(@, step)]
    /\ pg' = pg + 1
    /\ UNCHANGED <<call, ret, path, files, deduplicate, pc, file_i, dfs, failed, out,
                   extracted, canon, handles, rules>>

\* the end of extract_transactions_from_pdf and what the batch loop does
\* with the frame it returns
FinishDocument ==
    /\ InBatch
    /\ pc = "pages"
    /\ files[file_i + 1].kind = "pdf"
    /\ pg = Len(files[file_i + 1].pages)
    /\ handles' = close_handle(handles, file_i, FALSE)
    /\ \E dates \in DateChoices(all_rows, 1) :
          LET kept == KeptRows(all_rows, dates, files[file_i + 1].source_type)
              df == [columns |-> TRANSACTION_COLUMNS, rows |-> ProjectRows(kept)]
          IN  /\ extracted' = Append(extracted, df)
              /\ canon' = Append(canon, kept)
              /\ IF df.rows # <<>>
                 THEN /\ dfs' = Append(dfs, df)
                      /\ failed' = failed
                      /\ file_i' = file_i + 1
                 ELSE /\ dfs' = dfs
                      /\ failed' = Append(failed,
                            <<file_i, <<"No transaction table found or no debit rows in this PDF">> >>)
                      /\ file_i' = next_after_failure(file_i, Len(files))
    /\ pc' = "load"
    /\ UNCHANGED <<call, ret, path, files, deduplicate, pg, last_col_map,
                   all_rows, out, page_log, rules>>

\* after the last file: concatenate, deduplicate, return
FinishBatch ==
    /\ InBatch
    /\ pc = "load"
    /\ files # <<>>
    /\ file_i = Len(files)
    /\ out' = IF dfs = <<>> THEN EmptyFrame
              ELSE [ columns |-> TRANSACTION_COLUMNS,
                     rows |-> IF deduplicate
                              THEN RowsOf(drop_duplicates(Concat(dfs)))
                              ELSE Concat(dfs) ]
    /\ pc' = "done"
    /\ UNCHANGED <<call, ret, path, files, deduplicate, file_i, pg, last_col_map,
                   all_rows, dfs, failed, extracted, canon, page_log, handles, rules>>

\* extract_transactions_from_pdf called on its own with content that its
\* checks refuse
ExtractRaises ==
    /\ Direct
    /\ pc = "load"
    /\ content_error(files[1]) # Pending
    /\ ret' = content_error(files[1])
    /\ pc' = "raised"
    /\ UNCHANGED <<call, path, files, deduplicate, file_i, pg, last_col_map,
                   all_rows, dfs, failed, out, extracted, canon, page_log, handles, rules>>

\* called on its own, pdfplumber.open raises and nothing catches it
ExtractOpenRaises ==
    /\ Direct
    /\ pc = "load"
    /\ files[1].kind = "corrupt"
    /\ \E e \in OpenErrors : ret' = RaiseWith(e.exc, e.msg)
    /\ pc' = "raised"
    /\ UNCHANGED <<call, path, files, deduplicate, file_i, pg, last_col_map,
                   all_rows, dfs, failed, out, extracted, canon, page_log, handles, rules>>

\* called on its own, the end of extract_transactions_from_pdf
ExtractReturns ==
    /\ Direct
    /\ pc = "pages"
    /\ files[1].kind = "pdf"
    /\ pg = Len(files[1].pages)
    /\ handles' = close_handle(handles, file_i, FALSE)
    /\ \E dates \in DateChoices(all_rows, 1) :
          LET kept == KeptRows(all_rows, dates, files[1].source_type)
          IN  /\ ret' = [kind |-> "frame", columns |-> TRANSACTION_COLUMNS,
                         rows |-> ProjectRows(kept)]
              /\ canon' = Append(canon, kept)
    /\ pc' = "returned"
    /\ UNCHANGED <<call, path, files, deduplicate, file_i, pg, last_col_map,
                   all_rows, dfs, failed, out, extracted, page_log, rules>>

\* reading the tables of a page raises: the with block is left, and the
\* except branch of the batch loop records the file
PageRaises ==
    /\ InBatch
    /\ pc = "pages"
    /\ files[file_i + 1].kind = "broken"
    /\ pg = Len(files[file_i + 1].pages)
    /\ handles' = close_handle(handles, file_i, TRUE)
    /\ \E e \in PageErrors : failed' = Append(failed, <<file_i, failure_message(e)>>)
    /\ file_i' = next_after_failure(file_i, Len(files))
    /\ extracted' = Append(extracted, NoFrame)
    /\ canon' = Append(canon, <<>>)
    /\ pc' = "load"
    /\ UNCHANGED <<call, ret, path, files, deduplicate, pg, last_col_map,
                   all_rows, dfs, out, page_log, rules>>

\* called on its own, reading the tables of a page raises and nothing
\* catches it
ExtractPageRaises ==
    /\ Direct
    /\ pc = "pages"
    /\ files[1].kind = "broken"
    /\ pg = Len(files[1].pages)
    /\ handles' = close_handle(handles, file_i, TRUE)
    /\ \E e \in PageErrors : ret' = RaiseWith(e.exc, e.msg)
    /\ pc' = "raised"
    /\ UNCHANGED <<call, path, files, deduplicate, file_i, pg, last_col_map,
                   all_rows, dfs, failed, out, extracted, canon, page_log, rules>>

Next ==
    \/ LoadEmpty
    \/ RejectFile
    \/ OpenFails
    \/ OpenDocument
    \/ ProcessPage
    \/ FinishDocument
    \/ FinishBatch
    \/ ExtractRaises
    \/ ExtractOpenRaises
    \/ ExtractReturns
    \/ PageRaises
    \/ ExtractPageRaises

Spec == Init /\ [][Next]_vars

(***************************************************************************)
(* The pages given to _extract_table_from_page on its own: up to MaxTables *)
(* tables, each a grid of text cells whose first row begins with a number  *)
(* of numeric cells, a table without rows or a table whose first row is    *)
(* empty; and the pages of PageVocab.                                      *)
(***************************************************************************)
\* nrows rows of ncols cells holding fill, the first `numeric` cells of the
\* first row holding "1"
GridTable(nrows, ncols, numeric, fill) ==
    [r \in 1..nrows |->
        [c \in 1..ncols |-> IF r = 1 /\ c <= numeric THEN Str(<<"1">>) ELSE Str(<<fill>>)]]

TableVocab ==
    {GridTable(nrows, ncols, numeric, "a") :
        nrows \in {1, 2, 3, 6}, ncols \in {1, 2, 3, 4}, numeric \in {0, 2, 4}}
        \cup {GridTable(2, 2, 0, "b"), GridTable(3, 3, 3, "b")}
        \cup {<<>>, << <<>>, <<Str(<<"a">>), Str(<<"a">>)>> >>}

MaxTables == 2

TableInputs == SeqsUpTo(TableVocab, MaxTables) \cup PageVocab

TableResult(t) == [kind |-> "table", rows |-> t]

InitSelect ==
    /\ call \in {[fn |-> "extract_table_from_page", arg |-> a] : a \in TableInputs}
    /\ ret = Pending
    /\ path = "none"
    /\ PipelineIdle

CallExtractTable ==
    /\ call.fn = "extract_table_from_page"
    /\ ret = Pending
    /\ ret' = TableResult(extract_table_from_page(call.arg))
    /\ UNCHANGED <<call, path, pipeline>>

NextSelect == CallExtractTable

SpecSelect == InitSelect /\ [][NextSelect]_vars

(***************************************************************************)
(* The header resolver on its own: _map_headers, _fallback_column_map and  *)
(* the choice between them that extract_transactions_from_pdf makes for a  *)
(* table's first row, applied to one header row.                           *)
(***************************************************************************)

\* an absent cell
CellAbsent == None

\* the empty text
CellEmpty == Str(<<>>)

\* blanks only
CellBlank == Str(<<" ", " ">>)

CellDate == Str(<<"D", "a", "t", "e">>)

\* upper case with blanks around
CellDateSpaced == Str(<<" ", "D", "A", "T", "E", " ">>)

\* "Ngay  giao dich" with its diacritics and two blanks inside
CellNgayGiaoDich == Str(<<"N", "g", "U+00E0", "y", " ", " ", "g", "i", "a", "o", " ", "d", "U+1ECB", "c", "h">>)

CellDescription == Str(<<"D", "e", "s", "c", "r", "i", "p", "t", "i", "o", "n">>)

CellDebit == Str(<<"D", "e", "b", "i", "t">>)

CellCredit == Str(<<"C", "r", "e", "d", "i", "t">>)

\* "Ghi no ngay" with its diacritics: a Debit alias and the Date alias "ngay"
CellDebitWithNgay == Str(<<"G", "h", "i", " ", "n", "U+1EE3", " ", "n", "g", "a", "y">>)

\* "Doi tac" with its diacritics: a Remitter alias
CellDoiTac == Str(<<"U+0110", "U+1ED1", "i", " ", "t", "U+00E1", "c">>)

\* "NH Doi tac" with its diacritics: the bank of the remitter
CellBankDoiTac == Str(<<"N", "H", " ", "U+0110", "U+1ED1", "i", " ", "t", "U+00E1", "c">>)

CellRemitterBank == Str(<<"R", "e", "m", "i", "t", "t", "e", "r", " ", "B", "a", "n", "k">>)

\* a bank indicator and a Debit alias
CellRemitterBankDebit == Str(<<"R", "e", "m", "i", "t", "t", "e", "r", " ", "b", "a", "n", "k", " ", "d", "e", "b", "i", "t">>)

\* a bank indicator and a Credit alias
CellRemitterBankCredit == Str(<<"R", "e", "m", "i", "t", "t", "e", "r", " ", "b", "a", "n", "k", " ", "c", "r", "e", "d", "i", "t">>)

\* a text no alias is part of
CellUnknown == Str(<<"S", "T", "T">>)


HeaderCellVocab ==
    {CellAbsent, CellEmpty, CellBlank, CellDate, CellDateSpaced,
     CellNgayGiaoDich, CellDescription, CellDebit, CellCredit,
     CellDebitWithNgay, CellDoiTac, CellBankDoiTac, CellRemitterBank,
     CellRemitterBankDebit, CellRemitterBankCredit, CellUnknown}

\* a row of ncols cells that no alias is part of
UnknownRow(ncols) == [j \in 1..ncols |-> CellUnknown]

\* the header row of test_map_headers_recognizes_standard_aliases
HeaderStandard == <<CellDate, CellDescription, CellDebit, CellCredit>>

MaxHeaderCells == 2

MaxUnknownCols == 6

HeaderInputs ==
    SeqsUpTo(HeaderCellVocab, MaxHeaderCells)
        \cup {UnknownRow(ncols) : ncols \in 0..MaxUnknownCols}
        \cup {HeaderStandard, HeaderVietnamese, HeaderGapped, HeaderUnknown,
              HeaderDateOnly}

HeaderResult(headers) ==
    [kind |-> "col_map",
     mapped |-> map_headers(headers),
     fallback |-> fallback_column_map(headers),
     col_map |-> resolve_headers(headers)]

InitHeaders ==
    /\ call \in {[fn |-> "resolve_headers", arg |-> a] : a \in HeaderInputs}
    /\ ret = Pending
    /\ path = "none"
    /\ PipelineIdle

CallResolveHeaders ==
    /\ call.fn = "resolve_headers"
    /\ ret = Pending
    /\ ret' = HeaderResult(call.arg)
    /\ UNCHANGED <<call, path, pipeline>>

NextHeaders == CallResolveHeaders

SpecHeaders == InitHeaders /\ [][NextHeaders]_vars

(***************************************************************************)
(* What the claims about the pipeline speak of.                            *)
(***************************************************************************)
\* the rows of a table from its first row on, for a page without a header
table_to_rows_from_first(raw_table, col_map) ==
    IF raw_table = <<>> \/ DOMAIN col_map = {} THEN <<>>
    ELSE RowsFrom(raw_table, 1, col_map)

\* the number of columns a map spans: one more than its largest index
Span(col_map) ==
    IF DOMAIN col_map = {} THEN 0
    ELSE 1 + CHOOSE k \in DOMAIN col_map : \A j \in DOMAIN col_map : j <= k

\* a row under a map has a date that parses and a Debit that is not zero
GoodRow(r) ==
    /\ "Date" \in DOMAIN r
    /\ "Debit" \in DOMAIN r
    /\ \A o \in parse_date(r.Date, TRUE) : o[1] # None
    /\ parse_vnd_amount(r.Debit) # Num(0)

\* a document of two pages: a recognized header with data rows under it, then
\* a page without header whose first cell is a date and which is as wide as
\* the layout, every row with a date and a Debit
HeaderThenContinuation(doc) ==
    /\ doc.kind = "pdf"
    /\ Len(doc.pages) = 2
    /\ LET first == extract_table_from_page(doc.pages[1])
           second == extract_table_from_page(doc.pages[2])
       IN  /\ first # <<>>
           /\ second # <<>>
           /\ transaction_map_complete(map_headers(first[1]))
           /\ first_row_looks_like_data(second[1])
           /\ Len(second[1]) >= Span(map_headers(first[1]))
           /\ \A k \in 2..Len(first) :
                 GoodRow(RowDict(first[k], Len(first[1]), map_headers(first[1])))
           /\ \A k \in 1..Len(second) :
                 GoodRow(RowDict(second[k], Len(second[1]), map_headers(first[1])))

\* k + m for such a document
DataRowCount(doc) ==
    (Len(extract_table_from_page(doc.pages[1])) - 1)
        + Len(extract_table_from_page(doc.pages[2]))

\* C1: for a document whose first page has a recognized header and k data
\* rows and whose second page is a continuation page of m rows, every row
\* with a valid date and a non-zero Debit, extraction returns k + m rows
\* (row 0 of the continuation page included), each with a Date and the
\* declared SourceType.
ContinuationKeepsFirstRow ==
    \A j \in 1..Len(extracted) :
        HeaderThenContinuation(files[j]) =>
            /\ Len(extracted[j].rows) = DataRowCount(files[j])
            /\ \A k \in 1..Len(extracted[j].rows) :
                  /\ extracted[j].rows[k].Date # None
                  /\ extracted[j].rows[k].SourceType = files[j].source_type

\* the places <<file, page>> of the entries of page_log
LoggedPages ==
    UNION {{<<j, k>> : k \in 1..Len(page_log[j])} : j \in 1..Len(page_log)}

\* C2: on a page whose first row starts with a date, when a map from an
\* earlier page of the document exists and the page has at least as many
\* columns as that map spans, the loop applies that map unchanged, emits the
\* rows under it, keeps it as last_col_map and resolves no header.
ContinuationReusesMap ==
    \A at \in LoggedPages :
        LET e == page_log[at[1]][at[2]] IN
        ( /\ e.raw # <<>>
          /\ DOMAIN e.prev # {}
          /\ first_row_looks_like_data(e.raw[1])
          /\ Len(e.raw[1]) >= Span(e.prev) )
        => /\ ~e.resolved
           /\ e.col_map = e.prev
           /\ e.rows = table_to_rows(e.raw, e.prev)
           /\ e.last = e.prev

\* a continuation page under a map whose span exceeds its number of entries
ContinuationWitness ==
    \E at \in LoggedPages :
        LET e == page_log[at[1]][at[2]] IN
        /\ e.branch = "continuation"
        /\ Span(e.prev) > MapLen(e.prev)
        /\ Len(e.raw[1]) >= Span(e.prev)
        /\ e.rows # <<>>

SixColumns == <<"Date", "Description", "Remitter", "Debit", "Credit", "SourceType">>

\* C3: every table extraction or the batch returns, empty or not, has the
\* six columns Date, Description, Remitter, Debit, Credit, SourceType in
\* this order.
OutputHasSixColumns ==
    /\ \A j \in 1..Len(extracted) :
          extracted[j] # NoFrame => extracted[j].columns = SixColumns
    /\ pc = "done" => out.columns = SixColumns

\* the rows of a logged page that are data: on a continuation page row 0 too
DataRowsOfPage(e) ==
    IF ~e.accepted THEN <<>>
    ELSE IF e.branch = "continuation" THEN table_to_rows_from_first(e.raw, e.col_map)
    ELSE e.rows

RECURSIVE DataRowsFrom(_, _)
DataRowsFrom(log, k) ==
    IF k > Len(log) THEN <<>> ELSE DataRowsOfPage(log[k]) \o DataRowsFrom(log, k + 1)

HasDebit(r) == parse_vnd_amount(FrameCell(<<r>>, r, "Debit")) # Num(0)

\* C4: no row of a returned table has Debit 0, and every data row of an
\* accepted page whose Debit is not zero, a negative one included, is in the
\* table extraction returns.
DebitFilterKeepsNonZero ==
    /\ \A j \in 1..Len(extracted) :
          extracted[j] # NoFrame =>
              /\ \A k \in 1..Len(extracted[j].rows) : extracted[j].rows[k].Debit # Num(0)
              /\ Len(extracted[j].rows)
                    = Len(SelectSeq(DataRowsFrom(page_log[j], 1), HasDebit))
    /\ pc = "done" => \A k \in 1..Len(out.rows) : out.rows[k].Debit # Num(0)

TimesFailed(j) == Cardinality({k \in 1..Len(failed) : failed[k][1] = j})

\* file j gave a frame with rows, the frame went into the concatenation and
\* each of its rows is a row of the table returned
Contributed(j) ==
    /\ extracted[j + 1] # NoFrame
    /\ extracted[j + 1].rows # <<>>
    /\ \E k \in 1..Len(dfs) : dfs[k] = extracted[j + 1]
    /\ \A k \in 1..Len(extracted[j + 1].rows) :
          \E m \in 1..Len(out.rows) : out.rows[m] = extracted[j + 1].rows[k]

\* C5: when the batch returns, every file was processed, and each index is
\* either exactly once in the failure list or the index of a file that
\* contributed rows to the table, never both; the failure list is in
\* ascending order of index.
BatchAccountsForEveryFile ==
    pc = "done" =>
        /\ Len(extracted) = Len(files)
        /\ \A j \in 0..(Len(files) - 1) :
              \/ TimesFailed(j) = 1 /\ ~Contributed(j)
              \/ TimesFailed(j) = 0 /\ Contributed(j)
        /\ \A k \in 1..Len(failed) : failed[k][1] \in 0..(Len(files) - 1)
        /\ \A k \in 1..(Len(failed) - 1) : failed[k][1] < failed[k + 1][1]

\* a file that fails is followed by one that contributes
FailureThenSuccessWitness ==
    /\ pc = "done"
    /\ Len(files) = 2
    /\ TimesFailed(0) = 1
    /\ TimesFailed(1) = 0
    /\ Contributed(1)

\* rows without the rows equal to an earlier one
RECURSIVE FirstOccurrences(_)
FirstOccurrences(rows) ==
    IF rows = <<>> THEN <<>>
    ELSE LET front == FirstOccurrences(SubSeq(rows, 1, Len(rows) - 1))
             last == rows[Len(rows)]
         IN  IF \E k \in 1..Len(front) : front[k] = last THEN front
             ELSE Append(front, last)

SameFileTwice ==
    /\ pc = "done"
    /\ deduplicate
    /\ Len(files) = 2
    /\ files[1] = files[2]
    /\ files[1].kind = "pdf"

\* C6: with deduplicate, a batch of the same file twice returns the rows the
\* batch of that file once returns (the first occurrences of the rows
\* extraction gives for it), in the same order and number.
DuplicateFileAddsNothing ==
    SameFileTwice =>
        /\ extracted[2] = extracted[1]
        /\ out.rows = FirstOccurrences(extracted[1].rows)

DuplicateFileWitness == SameFileTwice /\ Len(out.rows) >= 2

RECURSIVE Flat(_)
Flat(seqs) == IF seqs = <<>> THEN <<>> ELSE Head(seqs) \o Flat(Tail(seqs))

\* C7: with deduplicate the batch removes a row only if an earlier row
\* agrees with it on Date, Description, Remitter, Debit, Credit and
\* SourceType, so that rows differing in Remitter alone are both in the
\* table; without deduplicate it removes none.
DedupComparesSixFields ==
    pc = "done" =>
        Len(out.rows) = IF deduplicate THEN Len(FirstOccurrences(Flat(canon)))
                        ELSE Len(Flat(canon))

(***************************************************************************)
(* C8: on a text whose only '-' characters are leading and which holds a   *)
(* digit, _parse_vnd_amount decides decimal versus thousands by the count  *)
(* of trailing digits: exactly one separator followed by 1 or 2 digits     *)
(* gives the decimal value, every other text gives the integer read from   *)
(* its digits, and a leading '-' negates the result.                       *)
(***************************************************************************)
\* the number of characters after the last separator of s
TrailingDigits(s) ==
    Len(s) - (CHOOSE p \in 1..Len(s) :
                  s[p] \in Separators /\ \A q \in (p + 1)..Len(s) : s[q] \notin Separators)

AmountInScope(s) ==
    /\ "-" \notin {LStrip(Strip(s), {"-"})[j] : j \in 1..Len(LStrip(Strip(s), {"-"}))}
    /\ Count(s, Digits) > 0

ExpectedAmount(s) ==
    LET c == Filter(s, Digits \cup Separators)
        magnitude ==
            IF Count(c, Separators) = 1 /\ TrailingDigits(c) \in {1, 2}
            THEN NatOf(Filter(c, Digits)) * (IF TrailingDigits(c) = 1 THEN 10 ELSE 1)
            ELSE NatOf(Filter(c, Digits)) * 100
    IN  IF Head(Strip(s)) = "-" THEN 0 - magnitude ELSE magnitude

HasInnerMinus(s) == Count(LStrip(Strip(s), {"-"}), {"-"}) > 0

MinusAfterDigit(s) ==
    \E i, j \in 1..Len(s) : i < j /\ s[i] \in Digits /\ s[j] = "-"

FirstSep(s, from) ==
    IF \E p \in from..Len(s) : s[p] \in DateSeps
    THEN CHOOSE p \in from..Len(s) :
            s[p] \in DateSeps /\ \A q \in from..(p - 1) : s[q] \notin DateSeps
    ELSE 0

StartsWithDMY(s) ==
    LET p1 == FirstSep(s, 1)
        p2 == FirstSep(s, p1 + 1)
    IN  /\ p1 \in {2, 3} /\ AllDigits(SubSeq(s, 1, p1 - 1))
        /\ p2 - p1 \in {2, 3} /\ AllDigits(SubSeq(s, p1 + 1, p2 - 1))
        /\ DigitRun(s, p2 + 1) >= 2

ExpectedDate(s, day_first) ==
    LET p1 == FirstSep(s, 1)
        p2 == FirstSep(s, p1 + 1)
        first == NatOf(SubSeq(s, 1, p1 - 1))
        second == NatOf(SubSeq(s, p1 + 1, p2 - 1))
        ytext == SubSeq(s, p2 + 1, p2 + Min(DigitRun(s, p2 + 1), 4))
        year == IF Len(ytext) = 2 THEN 2000 + NatOf(ytext) ELSE NatOf(ytext)
    IN  IF day_first THEN Date(year, second, first) ELSE Date(year, first, second)

Text_01_12_2025 == <<"0", "1", "/", "1", "2", "/", "2", "0", "2", "5">>

Text_2025_12_01 == <<"2", "0", "2", "5", "-", "1", "2", "-", "0", "1">>

DateDayMonthOrder ==
    (call.fn = "parse_date" /\ ret # Pending /\ call.arg.kind = "str"
        /\ Strip(call.arg.s) # <<>>)
    => LET s == Strip(call.arg.s)
           e == ExpectedDate(s, call.day_first)
       IN  /\ StartsWithDMY(s)
                => /\ path = "pattern"
                   /\ ret \in {None, e}
                   /\ (ValidYMD(e.y, e.m, e.d) /\ InTimestampYears(e.y)) => ret = e
           /\ ~StartsWithDMY(s) => path = "general"
           /\ (call.arg.s = Text_01_12_2025 /\ call.day_first)
                => ret = Date(2025, 12, 1)
           /\ (call.arg.s = <<"1", "5", "/", "0", "6", "/", "2", "5">> /\ call.day_first)
                => ret = Date(2025, 6, 15)
           /\ call.arg.s = Text_2025_12_01 => ret = Date(2025, 12, 1)

DateDayFirstWitness ==
    /\ call.fn = "parse_date"
    /\ call.arg = Str(Text_01_12_2025)
    /\ call.day_first
    /\ ret = Date(2025, 12, 1)
    /\ path = "pattern"

(***************************************************************************)
(* C11: _parse_date never raises; a text that starts with the D/M/Y        *)
(* pattern but names no calendar date under day_first (day 32, month 13 or *)
(* more, 30 February) gives None from the pattern branch, the general      *)
(* parser not being tried; an absent value, an empty or blank text and a   *)
(* text without any digit give None as well.                               *)
(***************************************************************************)
Text_32_01_2025 == <<"3", "2", "/", "0", "1", "/", "2", "0", "2", "5">>

Text_not_a_date == <<"n", "o", "t", "-", "a", "-", "d", "a", "t", "e">>

DateNeverRaises ==
    (call.fn = "parse_date" /\ ret # Pending)
    => /\ ret.kind \in {"none", "date"}
       /\ call.arg.kind \in {"none", "nan"} => ret = None
       /\ call.arg.kind = "str" =>
            LET s == Strip(call.arg.s)
                e == ExpectedDate(s, call.day_first)
            IN  /\ s = <<>> => ret = None
                /\ (s # <<>> /\ StartsWithDMY(s) /\ ~ValidYMD(e.y, e.m, e.d))
                      => ret = None /\ path = "pattern"
                /\ Count(s, Digits) = 0 => ret = None
                /\ call.arg.s = Text_32_01_2025 => ret = None /\ path = "pattern"
                /\ call.arg.s = Text_not_a_date => ret = None

\* 31/02/2025 read day first: no 31 February
DateInvalidWitness ==
    /\ call.fn = "parse_date"
    /\ call.arg = Str(<<"3", "1", "/", "0", "2", "/", "2", "0", "2", "5">>)
    /\ call.day_first
    /\ ret = None
    /\ path = "pattern"

(***************************************************************************)
(* What the claims about the table selector speak of.                      *)
(***************************************************************************)
\* a table the selector does not discard
Eligible(t) == Len(t) >= 2 /\ Len(t[1]) >= 2

EligibleIn(tables) == {k \in 1..Len(tables) : Eligible(tables[k])}

Table_2x2 == GridTable(2, 2, 0, "a")

Table_6x4 == GridTable(6, 4, 0, "a")

\* C12: _extract_table_from_page discards the tables of fewer than 2 rows or
\* fewer than 2 first-row columns and returns, of the others, the one of the
\* highest score (the first of them on a tie), each of them scoring above 0:
\* the 6x4 header-shaped table of a page that also has a 2x2 table, in
\* either order; it returns the empty table only when it discarded all.
SelectsHighestScore ==
    (call.fn = "extract_table_from_page" /\ ret # Pending)
    => LET tables == call.arg
           el == EligibleIn(tables)
       IN  /\ el = {} <=> ret.rows = <<>>
           /\ el # {} =>
                \E k \in el :
                    /\ ret.rows = tables[k]
                    /\ score_table_as_transactions(tables[k]) > 0
                    /\ \A j \in el :
                          /\ score_table_as_transactions(tables[j])
                                <= score_table_as_transactions(tables[k])
                          /\ j < k => score_table_as_transactions(tables[j])
                                        < score_table_as_transactions(tables[k])
           /\ tables \in {<<Table_2x2, Table_6x4>>, <<Table_6x4, Table_2x2>>}
                => ret.rows = Table_6x4

SelectsHighestWitness ==
    /\ call.fn = "extract_table_from_page"
    /\ call.arg = <<Table_6x4, Table_2x2>>
    /\ ret = TableResult(Table_6x4)

\* no eligible table of the page has a first row that looks like a header
NoHeaderShaped(tables) ==
    \A k \in EligibleIn(tables) : ~looks_like_header_row(tables[k][1])

\* table k is a largest eligible one by (rows, columns)
LargestIn(tables, k) ==
    \A j \in EligibleIn(tables) :
        ~SizeGreater(<<Len(tables[j]), Len(tables[j][1])>>,
                     <<Len(tables[k]), Len(tables[k][1])>>)

\* C13: on a page where no eligible table has a header-shaped first row,
\* _extract_table_from_page returns the largest eligible table by (rows,
\* columns), every eligible table scoring 0.
SelectsLargestWithoutHeader ==
    (call.fn = "extract_table_from_page" /\ ret # Pending
        /\ EligibleIn(call.arg) # {} /\ NoHeaderShaped(call.arg))
    => /\ \E k \in EligibleIn(call.arg) :
              ret.rows = call.arg[k] /\ LargestIn(call.arg, k)
       /\ \A k \in EligibleIn(call.arg) :
              score_table_as_transactions(call.arg[k]) = 0

(***************************************************************************)
(* What the claims about the header resolver speak of.                     *)
(***************************************************************************)
\* the alias families in the order of priority
FamilyOrder == <<"Date", "Description", "Remitter", "Debit", "Credit">>

AliasesOf(family) ==
    CASE family = "Date" -> DATE_ALIASES
      [] family = "Description" -> DESC_ALIASES
      [] family = "Remitter" -> REMITTER_ALIASES
      [] family = "Debit" -> DEBIT_ALIASES
      [] family = "Credit" -> CREDIT_ALIASES

\* the normalized text holds a phrase that names the bank of the remitter
HasBankIndicator(n) ==
    \E k \in 1..Len(REMITTER_BANK_INDICATORS) : Contains(n, REMITTER_BANK_INDICATORS[k])

HasAliasOf(n, family) ==
    \E k \in 1..Len(AliasesOf(family)) : Contains(n, AliasesOf(family)[k])

\* the family matches the normalized text: one of its aliases is part of the
\* text, and a match against Remitter is discarded for the bank of the
\* remitter
FamilyMatches(n, family) ==
    HasAliasOf(n, family) /\ ~(family = "Remitter" /\ HasBankIndicator(n))

MatchingRanks(n) == {k \in 1..Len(FamilyOrder) : FamilyMatches(n, FamilyOrder[k])}

LeastOf(S) == CHOOSE k \in S : \A j \in S : k <= j

HeadersResolved == call.fn = "resolve_headers" /\ ret # Pending

\* C14: _map_headers gives each header cell whose normalized text is not
\* empty and is matched by a family the name of the first such family in the
\* order Date, Description, Remitter, Debit, Credit, so that "Ghi no ngay",
\* which holds a Debit alias and the Date alias "ngay", becomes Date; it
\* leaves empty cells and cells that no family matches unmapped, and every
\* mapped index is an index of the header row.
MapHeadersFirstFamily ==
    HeadersResolved
    => LET headers == call.arg
           mapped == ret.mapped
       IN  /\ DOMAIN mapped \subseteq 0..(Len(headers) - 1)
           /\ \A i \in 0..(Len(headers) - 1) :
                LET n == normalize_header(headers[i + 1])
                    ranks == MatchingRanks(n)
                IN  IF n = <<>> \/ ranks = {}
                    THEN i \notin DOMAIN mapped
                    ELSE i \in DOMAIN mapped /\ mapped[i] = FamilyOrder[LeastOf(ranks)]
           /\ headers = <<CellDebitWithNgay>> => mapped = (0 :> "Date")
           /\ headers = <<CellDateSpaced, CellNgayGiaoDich>>
                => mapped = (0 :> "Date" @@ 1 :> "Date")
           /\ headers = HeaderStandard
                => mapped = (0 :> "Date" @@ 1 :> "Description" @@ 2 :> "Debit"
                                @@ 3 :> "Credit")

MapHeadersTwoFamiliesWitness ==
    /\ HeadersResolved
    /\ call.arg = <<CellEmpty, CellDebitWithNgay>>
    /\ HasAliasOf(normalize_header(CellDebitWithNgay), "Debit")
    /\ HasAliasOf(normalize_header(CellDebitWithNgay), "Date")
    /\ ret.mapped = (1 :> "Date")

IndicatorCells ==
    {CellBankDoiTac, CellRemitterBank, CellRemitterBankDebit,
     CellRemitterBankCredit}

\* C15: _map_headers never maps to Remitter a cell whose normalized text
\* holds a phrase naming the bank of the remitter ("remitter bank",
\* "nh doi tac", ...), although the text also holds a Remitter alias; the
\* cell still gets Debit or Credit when no family before Remitter matches
\* and one of those two does, and stays unmapped when no other family
\* matches.
BankHeaderNeverRemitter ==
    HeadersResolved
    => LET headers == call.arg
           mapped == ret.mapped
       IN  /\ \A i \in 0..(Len(headers) - 1) :
                LET n == normalize_header(headers[i + 1])
                IN  HasBankIndicator(n)
                    => /\ i \in DOMAIN mapped => mapped[i] # "Remitter"
                       /\ (/\ ~HasAliasOf(n, "Date")
                           /\ ~HasAliasOf(n, "Description")
                           /\ HasAliasOf(n, "Debit"))
                            => (i \in DOMAIN mapped /\ mapped[i] = "Debit")
                       /\ (/\ ~HasAliasOf(n, "Date")
                           /\ ~HasAliasOf(n, "Description")
                           /\ ~HasAliasOf(n, "Debit")
                           /\ HasAliasOf(n, "Credit"))
                            => (i \in DOMAIN mapped /\ mapped[i] = "Credit")
                       /\ (\A k \in {1, 2, 4, 5} : ~HasAliasOf(n, FamilyOrder[k]))
                            => i \notin DOMAIN mapped
           /\ \A j \in 1..Len(headers) :
                headers[j] \in IndicatorCells
                    => HasBankIndicator(normalize_header(headers[j]))
           /\ headers = <<CellRemitterBankCredit>> => mapped = (0 :> "Credit")
           /\ headers = <<CellRemitterBank>> => mapped = NoMap

BankHeaderWitness ==
    /\ HeadersResolved
    /\ call.arg = <<CellBankDoiTac, CellRemitterBankDebit>>
    /\ HasAliasOf(normalize_header(CellBankDoiTac), "Remitter")
    /\ HasAliasOf(normalize_header(CellRemitterBankDebit), "Remitter")
    /\ ret.mapped = (1 :> "Debit")

PositionalName(i) ==
    CASE i = 0 -> "Date"
      [] i = 1 -> "Description"
      [] i = 2 -> "Debit"
      [] i = 3 -> "Credit"

\* C16: the positional map takes the place of the map of _map_headers only
\* when that map is empty; it names column 0 Date, 1 Description, 2 Debit and
\* 3 Credit for exactly the indices below 4 that the row has, so it holds
\* Date and Debit exactly when the row has at least 3 columns.
FallbackOnlyWhenUnmapped ==
    HeadersResolved
    => LET ncols == Len(call.arg)
           fallback == ret.fallback
       IN  /\ DOMAIN ret.mapped # {} => ret.col_map = ret.mapped
           /\ DOMAIN ret.mapped = {} => ret.col_map = fallback
           /\ DOMAIN fallback = {i \in 0..3 : i < ncols}
           /\ \A i \in DOMAIN fallback : fallback[i] = PositionalName(i)
           /\ (/\ \E i \in DOMAIN fallback : fallback[i] = "Date"
               /\ \E i \in DOMAIN fallback : fallback[i] = "Debit")
                <=> ncols >= 3
           /\ transaction_map_complete(fallback) <=> ncols >= 3

FallbackWitness ==
    /\ HeadersResolved
    /\ call.arg = UnknownRow(6)
    /\ DOMAIN ret.mapped = {}
    /\ ret.col_map = (0 :> "Date" @@ 1 :> "Description" @@ 2 :> "Debit" @@ 3 :> "Credit")

(***************************************************************************)
(* What the claims about refused content speak of.                         *)
(***************************************************************************)
\* the content is not bytes, or is bytes of length 0
Refused(doc) == doc.kind \in {"none", "str", "empty"}

NeverOpened(k) == k > Len(page_log) \/ page_log[k] = <<>>

\* C17: extract_transactions_from_pdf called on its own raises TypeError for
\* content that is not bytes and ValueError for empty bytes, and does so
\* without opening the document or processing a page; load_pdfs_to_dataframe
\* given such a document raises nothing, records the failure
\* "Invalid or empty file (got <type>)" under the index of the document,
\* opens no page of it and goes on to the documents after it.
RefusedContentRaisesOrIsRecorded ==
    /\ (Direct /\ Refused(files[1]))
        => /\ pc \in {"load", "raised"}
           /\ page_log = <<>> /\ pg = 0 /\ all_rows = <<>> /\ canon = <<>>
           /\ pc = "raised"
                => /\ ret.kind = "raise"
                   /\ files[1].kind \in {"none", "str"} => ret.exc = "TypeError"
                   /\ files[1].kind = "empty" => ret.exc = "ValueError"
    /\ (Direct /\ pc = "raised" /\ ret.kind = "raise"
            /\ ret.exc \in {"TypeError", "ValueError"})
        => Refused(files[1])
    /\ InBatch
        => /\ ret = Pending
           /\ \A k \in 1..Len(files) :
                Refused(files[k])
                    => /\ NeverOpened(k)
                       /\ file_i >= k
                            => /\ \E f \in 1..Len(failed) :
                                    /\ failed[f][1] = k - 1
                                    /\ failed[f][2][1] = "Invalid or empty file (got "
                                    /\ failed[f][2][2]
                                        = (CASE files[k].kind = "none" -> "NoneType"
                                             [] files[k].kind = "str" -> "str"
                                             [] files[k].kind = "empty" -> "bytes")
                               /\ extracted[k] = NoFrame
                       /\ pc = "done"
                            => \A j \in (k + 1)..Len(files) :
                                  /\ Len(extracted) >= j
                                  /\ files[j].kind = "pdf" => extracted[j] # NoFrame

RefusedDirectWitness ==
    /\ Direct
    /\ files[1].kind = "str"
    /\ pc = "raised"
    /\ ret = RaiseWith("TypeError", <<"pdf_bytes must be bytes, got ", "str">>)

(***************************************************************************)
(* What the claims about the text columns speak of.                        *)
(***************************************************************************)
\* the text has no whitespace at either end
Trimmed(s) == s = <<>> \/ (s[1] \notin Whitespace /\ s[Len(s)] \notin Whitespace)

\* a value that normalizing text can give: a text, trimmed, that is not
\* "nan" or "none" in any letter case
IsNormalizedText(x) ==
    /\ x.kind = "str"
    /\ Trimmed(x.s)
    /\ LowerText(x.s) \notin {<<"n", "a", "n">>, <<"n", "o", "n", "e">>}

\* C18: Description and Remitter of every row that extraction keeps are
\* normalized text: the empty text for an absent value and for "nan" and
\* "none" in any letter case, and otherwise the text of the value without
\* the whitespace at its ends.
TextColumnsNormalized ==
    \A k \in 1..Len(canon) : \A j \in 1..Len(canon[k]) :
        /\ IsNormalizedText(canon[k][j].Description)
        /\ IsNormalizedText(canon[k][j].Remitter)

(***************************************************************************)
(* What the claims about the order of the rows speak of.                   *)
(***************************************************************************)
\* the rows that the pages of document k gave, in page order and, within a
\* page, in row order, each with the index of its document; none for a
\* document whose page loop was left by an exception
RawOf(k) ==
    LET rows == IF files[k].kind = "pdf"
                THEN Flatten([p \in 1..Len(page_log[k]) |-> page_log[k][p].rows])
                ELSE <<>>
    IN  [j \in 1..Len(rows) |-> [doc |-> k, row |-> rows[j]]]

AllRaw == Flatten([k \in 1..Len(page_log) |-> RawOf(k)])

CellOf(r, col) == IF col \in DOMAIN r THEN r[col] ELSE None

HasNonZeroDebit(e) == parse_vnd_amount(CellOf(e.row, "Debit")) # Num(0)

\* what extraction makes of the raw row e, the dates it can give as a set
MadeOf(e) ==
    [SourceType |-> files[e.doc].source_type,
     Debit |-> parse_vnd_amount(CellOf(e.row, "Debit")),
     Credit |-> parse_vnd_amount(CellOf(e.row, "Credit")),
     Description |-> str_col(CellOf(e.row, "Description")),
     Dates |-> {o[1] : o \in parse_date(CellOf(e.row, "Date"), TRUE)}]

\* the output row is the row made
IsMade(outrow, made) ==
    /\ outrow.SourceType = made.SourceType
    /\ outrow.Debit = made.Debit
    /\ outrow.Credit = made.Credit
    /\ outrow.Description = made.Description
    /\ outrow.Date \in made.Dates

\* the output row is what extraction makes of the raw row e
ComesFrom(outrow, e) == IsMade(outrow, MadeOf(e))

\* the place in made of the first raw row that the output row comes from,
\* 0 when it comes from none
FirstSource(outrow, made) ==
    IF \E q \in 1..Len(made) : IsMade(outrow, made[q])
    THEN CHOOSE q \in 1..Len(made) :
            /\ IsMade(outrow, made[q])
            /\ \A u \in 1..(q - 1) : ~IsMade(outrow, made[u])
    ELSE 0

BatchReturned == InBatch /\ pc = "done"

\* C19: the table that load_pdfs_to_dataframe returns lists the rows in
\* input order: by document, within a document by page, within a page by
\* row. Without deduplicate it is, one for one, the raw rows with a non-zero
\* Debit in that order; with deduplicate every row stands where its first
\* occurrence stood, so that the rows kept are never reordered.
RowsInInputOrder ==
    BatchReturned
    => LET kept == SelectSeq(AllRaw, HasNonZeroDebit)
           made == [m \in 1..Len(kept) |-> MadeOf(kept[m])]
           first == [m \in 1..Len(out.rows) |-> FirstSource(out.rows[m], made)]
       IN  /\ \A m \in 1..(Len(kept) - 1) : kept[m].doc <= kept[m + 1].doc
           /\ \A m \in 1..Len(out.rows) : first[m] > 0
           /\ deduplicate
                => \A m \in 1..(Len(out.rows) - 1) :
                      /\ first[m] < first[m + 1]
                      /\ kept[first[m]].doc <= kept[first[m + 1]].doc
           /\ ~deduplicate
                => /\ Len(out.rows) = Len(kept)
                   /\ \A m \in 1..Len(kept) : IsMade(out.rows[m], made[m])

RowsInInputOrderWitness ==
    /\ BatchReturned
    /\ ~deduplicate
    /\ files = << Pdf(<<PageFeeAndTransactions>>, "checking"),
                  Pdf(<<PageWithHeader, PageContinuation>>, "checking") >>
    /\ Len(out.rows) >= 2
    /\ out.rows[1].Debit = Num(20000000)
    /\ out.rows[Len(out.rows)].Debit = Num(30000000)

(***************************************************************************)
(* What the claims about cells that cannot be parsed speak of.             *)
(***************************************************************************)
\* a text that holds something and that _parse_date reads as no date
UnparseableDate(cell) ==
    /\ cell.kind = "str"
    /\ Strip(cell.s) # <<>>
    /\ \A o \in parse_date(cell, TRUE) : o[1] = None

\* a text that holds something and no digit
UnparseableAmount(cell) ==
    /\ cell.kind = "str"
    /\ Strip(cell.s) # <<>>
    /\ Count(cell.s, Digits) = 0

\* C20: a cell that cannot be parsed never fails a document. A data row of
\* an accepted page (on a continuation page its first row as well) whose
\* Date cannot be parsed and whose Debit is not zero is in the frame of the
\* document with Date absent; the rows with a non-zero Debit that the pages
\* gave are all in the frame, one for one and in order, whatever the other
\* rows hold, a Credit that cannot be parsed counting as 0 and a Debit that
\* cannot be parsed as 0 for its own row only; and a document with a row of
\* non-zero Debit gets no failure entry.
BadCellNeverFailsDocument ==
    \A k \in 1..Len(canon) :
        LET data == DataRowsFrom(page_log[k], 1)
            kept == SelectSeq(RawOf(k), HasNonZeroDebit)
        IN  /\ \A j \in 1..Len(data) :
                  (UnparseableDate(CellOf(data[j], "Date")) /\ HasDebit(data[j]))
                    => \E m \in 1..Len(canon[k]) :
                          /\ canon[k][m].Date = None
                          /\ canon[k][m].Debit = parse_vnd_amount(CellOf(data[j], "Debit"))
                          /\ canon[k][m].Description
                                = str_col(CellOf(data[j], "Description"))
            /\ Len(canon[k]) = Len(kept)
            /\ \A m \in 1..Len(kept) :
                  /\ ComesFrom(canon[k][m], kept[m])
                  /\ UnparseableAmount(CellOf(kept[m].row, "Credit"))
                        => canon[k][m].Credit = Num(0)
            /\ \A j \in 1..Len(RawOf(k)) :
                  UnparseableAmount(CellOf(RawOf(k)[j].row, "Debit"))
                        => ~HasNonZeroDebit(RawOf(k)[j])
            /\ (InBatch /\ kept # <<>>)
                  => /\ TimesFailed(k - 1) = 0
                     /\ extracted[k] # NoFrame
                     /\ Len(extracted[k].rows) = Len(kept)
            /\ (Direct /\ pc = "returned")
                  => /\ ret.kind = "frame"
                     /\ Len(ret.rows) = Len(kept)

(***************************************************************************)
(* What the claims about the page loop speak of.                           *)
(***************************************************************************)
\* the map names a Date column and a Debit column
HasDateAndDebit(col_map) ==
    /\ \E k \in DOMAIN col_map : col_map[k] = "Date"
    /\ \E k \in DOMAIN col_map : col_map[k] = "Debit"

LogEntry(at) == page_log[at[1]][at[2]]

\* C21: a page appends rows only under a map that names both Date and
\* Debit, and a page with a table is accepted exactly when the map applied
\* to it does; {0: Date, 3: Debit} is complete, {1: Description, 2: Debit},
\* {0: Date, 1: Description} and the empty map are not; last_col_map is at
\* every moment of the loop either empty or a map that names both.
CompletenessIsTheGate ==
    /\ \A at \in LoggedPages :
          /\ LogEntry(at).rows # <<>> => HasDateAndDebit(LogEntry(at).col_map)
          /\ LogEntry(at).raw # <<>>
                => (LogEntry(at).accepted <=> HasDateAndDebit(LogEntry(at).col_map))
          /\ LogEntry(at).raw = <<>> => ~LogEntry(at).accepted
          /\ DOMAIN LogEntry(at).last = {} \/ HasDateAndDebit(LogEntry(at).last)
    /\ DOMAIN last_col_map = {} \/ HasDateAndDebit(last_col_map)
    /\ transaction_map_complete((0 :> "Date" @@ 3 :> "Debit"))
    /\ ~transaction_map_complete((1 :> "Description" @@ 2 :> "Debit"))
    /\ ~transaction_map_complete((0 :> "Date" @@ 1 :> "Description"))
    /\ ~transaction_map_complete(NoMap)

\* a page whose map names Date alone is skipped, the next page is accepted
CompletenessWitness ==
    \E j \in 1..Len(page_log) :
        /\ Len(page_log[j]) = 2
        /\ page_log[j][1].raw # <<>>
        /\ "Date" \in MapValues(page_log[j][1].col_map)
        /\ ~page_log[j][1].accepted
        /\ page_log[j][1].last = NoMap
        /\ page_log[j][2].accepted
        /\ page_log[j][2].rows # <<>>
        /\ last_col_map = page_log[j][2].col_map

\* the page has a table whose first row does not start with a date, the map
\* its header resolves to lacks Date or Debit, and an earlier map exists
\* that the page is wide enough for
IncompleteFreshWithLast(e) ==
    /\ e.raw # <<>>
    /\ ~first_row_looks_like_data(e.raw[1])
    /\ ~HasDateAndDebit(resolve_headers(e.raw[1]))
    /\ DOMAIN e.prev # {}
    /\ Len(e.raw[1]) >= Span(e.prev)

\* the page has a table whose first row does not start with a date and the
\* map its header resolves to names Date and Debit
CompleteFresh(e) ==
    /\ e.raw # <<>>
    /\ ~first_row_looks_like_data(e.raw[1])
    /\ HasDateAndDebit(resolve_headers(e.raw[1]))

\* the place of the page that the loop has just processed: every logged
\* page is there in the state that follows its step
JustLogged ==
    IF pc = "pages" /\ page_log[file_i + 1] # <<>>
    THEN {<<file_i + 1, Len(page_log[file_i + 1])>>}
    ELSE {}

\* C22: on a page whose first row is no date and whose freshly resolved map
\* (that of _map_headers, else the positional one) lacks Date or Debit, when
\* last_col_map exists and spans no more columns than the page has, the
\* loop applies last_col_map restricted to the columns of the page and not
\* the fresh map; when the fresh map names Date and Debit, the loop applies
\* the fresh map and makes it the new last_col_map.
IncompleteFreshMapGivesWayToLast ==
    \A at \in JustLogged :
        LET e == LogEntry(at)
        IN  (e.raw # <<>> /\ ~first_row_looks_like_data(e.raw[1]))
            => LET fresh == resolve_headers(e.raw[1])
               IN  /\ (/\ ~HasDateAndDebit(fresh)
                        /\ DOMAIN e.prev # {}
                        /\ Len(e.raw[1]) >= Span(e.prev))
                       => /\ e.col_map
                               = [k \in {j \in DOMAIN e.prev : j < Len(e.raw[1])}
                                     |-> e.prev[k]]
                          /\ e.col_map # fresh
                          /\ e.accepted
                          /\ e.last = e.prev
                   /\ HasDateAndDebit(fresh)
                       => /\ e.col_map = fresh
                          /\ e.accepted
                          /\ e.last = fresh

\* a page with a header that names Date alone, after a page that was accepted
IncompleteFreshWitness ==
    \E at \in LoggedPages :
        /\ IncompleteFreshWithLast(LogEntry(at))
        /\ DOMAIN resolve_headers(LogEntry(at).raw[1]) # {}
        /\ LogEntry(at).rows # <<>>

\* C23: the loop takes last_col_map for a page, in the continuation branch
\* or in the branch of the incomplete fresh map, only when the first row of
\* the page has at least as many columns as last_col_map spans; the map it
\* then applies is last_col_map with every entry, and last_col_map after the
\* page has every entry it had before.
ReuseOnlyWithinSpan ==
    \A at \in LoggedPages :
        LogEntry(at).branch \in {"continuation", "reuse"}
        => /\ Len(LogEntry(at).raw[1]) >= Span(LogEntry(at).prev)
           /\ LogEntry(at).col_map = LogEntry(at).prev
           /\ LogEntry(at).last = LogEntry(at).prev

\* the rows that the logged pages of document j appended
RowsLogged(j) == Flatten([p \in 1..Len(page_log[j]) |-> page_log[j][p].rows])

\* the page was skipped: it had no eligible table, or the map that resulted
\* for it was empty or lacked Date or Debit
Skipped(e) == e.raw = <<>> \/ ~HasDateAndDebit(e.col_map)

\* C24: a skipped page leaves the state of the loop as it was: after a page
\* without eligible table, or one whose map is empty or incomplete,
\* last_col_map and the rows collected are what they were before the page
\* (each page starts from what the page before it left), so that a
\* continuation page after it still takes the map of the last accepted page.
SkippedPageChangesNothing ==
    /\ \A at \in LoggedPages :
          /\ at[2] > 1 => LogEntry(at).prev = page_log[at[1]][at[2] - 1].last
          /\ Skipped(LogEntry(at))
                => /\ LogEntry(at).last = LogEntry(at).prev
                   /\ LogEntry(at).rows = <<>>
    /\ pc = "pages"
        => /\ all_rows = RowsLogged(file_i + 1)
           /\ page_log[file_i + 1] # <<>>
                => last_col_map = page_log[file_i + 1][Len(page_log[file_i + 1])].last

\* an accepted page, then a page without table or with an incomplete
\* map, then a continuation page under the map of the first
SkippedPageWitness ==
    \E j \in 1..Len(page_log) :
        /\ Len(page_log[j]) = 3
        /\ page_log[j][1].accepted
        /\ Skipped(page_log[j][2])
        /\ page_log[j][3].branch = "continuation"
        /\ page_log[j][3].col_map = page_log[j][1].col_map
        /\ page_log[j][3].rows # <<>>

\* C25: last_col_map belongs to one document: the first page of every
\* document finds it empty and so never takes a map from an earlier
\* document, even when it has no header; what the loop does with a page is
\* what the page and the pages before it in its own document give, begun
\* from the empty map, so that a document is treated in a batch as it is
\* alone; and two equal files of a batch give equal frames.
MapIsDocumentScoped ==
    /\ \A at \in LoggedPages :
          at[2] = 1 => /\ LogEntry(at).prev = NoMap
                       /\ LogEntry(at).branch \in {"no_table", "fresh"}
    /\ \A at \in JustLogged :
          LogEntry(at)
            = page_step(files[at[1]].pages[at[2]],
                        IF at[2] = 1 THEN NoMap ELSE page_log[at[1]][at[2] - 1].last)
    /\ InBatch =>
          \A j \in 1..Len(extracted) : \A k \in 1..Len(extracted) :
              files[j] = files[k] => extracted[j] = extracted[k]

\* a document without header after a document with a header and a
\* continuation page
HeaderlessSecondDocumentWitness ==
    /\ BatchReturned
    /\ files = HeaderlessAfterHeaded
    /\ page_log[1][2].branch = "continuation"
    /\ page_log[2][1].branch = "fresh"
    /\ first_row_looks_like_data(page_log[2][1].raw[1])
    /\ page_log[2][1].col_map # page_log[1][2].col_map

(***************************************************************************)
(* What the claims about the handles and the failure entries speak of.     *)
(***************************************************************************)
\* the page loop of the current document is running
InPageLoop == pc = "pages"

\* C26: every pdfplumber handle that is opened is released when the loop
\* over the pages ends, whether all pages were processed or a page raised.
\* Only the document whose pages are being read has its handle open, so at
\* most one handle is open at any time, none is open when the next document
\* is opened, and none is open when load_pdfs_to_dataframe or
\* extract_transactions_from_pdf is left.
HandleReleasedWhenLoopEnds ==
    /\ Cardinality(handles) <= 1
    /\ InPageLoop => handles = {file_i}
    /\ ~InPageLoop => handles = {}

HandleReleasedWitness ==
    /\ InBatch
    /\ pc = "done"
    /\ files = << PdfBroken(<<PageWithHeader>>, "checking"),
                  Pdf(<<PageContinuation>>, "checking") >>
    /\ failed[1] = <<0, <<"Corrupted PDF">> >>
    /\ Len(page_log[1]) = 1
    /\ Len(page_log[2]) = 1
    /\ extracted[2] # NoFrame
    /\ handles = {}

\* the reasons recorded for the file at place k of the batch
ReasonsOf(k) == {failed[q][2] : q \in {u \in 1..Len(failed) : failed[u][1] = k - 1}}

InvalidReason(doc) == <<"Invalid or empty file (got ", TypeName(doc), ")">>

IsInvalidReason(msg) == msg # <<>> /\ msg[1] = "Invalid or empty file (got "

NoRowsReason == <<"No transaction table found or no debit rows in this PDF">>

\* what the batch may record for an error among errors: its message without
\* the whitespace around it, the name of its type when nothing is left
ReasonsFor(errors) ==
    {Strip(e.msg) : e \in {x \in errors : Strip(x.msg) # <<>>}}
        \cup {<<e.exc>> : e \in {x \in errors : Strip(x.msg) = <<>>}}

\* extraction of the file at place k ended without an error
Completed(k) == files[k].kind = "pdf" /\ extracted[k] # NoFrame

\* C27: the reason of every failure entry is determined by its cause.
\* "Invalid or empty file (got T)" is recorded for content that is not bytes
\* or is empty, and only for it; "No transaction table found or no debit
\* rows in this PDF" exactly when extraction completed with zero rows; for
\* a document whose processing raises, the stripped message of the error,
\* or the name of its type when the message is empty or whitespace. A
\* document that returns at least one row has no failure entry.
ReasonFollowsCause ==
    InBatch
    => \A k \in 1..Len(extracted) :
          /\ (NotBytes(files[k]) \/ EmptyBytes(files[k]))
                => ReasonsOf(k) = {InvalidReason(files[k])}
          /\ (\E msg \in ReasonsOf(k) : IsInvalidReason(msg))
                => NotBytes(files[k]) \/ EmptyBytes(files[k])
          /\ NoRowsReason \in ReasonsOf(k)
                <=> (Completed(k) /\ extracted[k].rows = <<>>)
          /\ files[k].kind = "corrupt"
                => ReasonsOf(k) # {} /\ ReasonsOf(k) \subseteq ReasonsFor(OpenErrors)
          /\ files[k].kind = "broken"
                => ReasonsOf(k) # {} /\ ReasonsOf(k) \subseteq ReasonsFor(PageErrors)
          /\ (Completed(k) /\ extracted[k].rows # <<>>) => ReasonsOf(k) = {}

ReasonWitness ==
    /\ InBatch
    /\ pc = "done"
    /\ files = << PdfBroken(<<>>, "checking"), NotPdf("corrupt") >>
    /\ failed = << <<0, <<"Corrupted PDF">> >>, <<1, <<"PDFSyntaxError">> >> >>

(***************************************************************************)
(* _looks_like_header_row and _score_table_as_transactions on their own:   *)
(* first rows of up to MaxRowCells cells that are absent, empty, text or   *)
(* numeric, and tables of up to MaxScoreRows rows under such a first row.  *)
(***************************************************************************)
ScoreCells ==
    { None,
      Str(<<>>),
      Str(<<"D", "a", "t", "e">>),
      Str(<<"1", "2", "3">>),
      Str(<<" ", "1", ".", "5", ",", "-">>) }

MaxRowCells == 4

FirstRows == SeqsUpTo(ScoreCells, MaxRowCells)

MaxScoreRows == 22

\* few rows, and rows around the twenty data rows that count
RowCounts == 0..3 \cup 21..MaxScoreRows

\* nrows rows: first, then rows of text of the same width
ScoreTable(first, nrows) ==
    [r \in 1..nrows |-> IF r = 1 THEN first ELSE [c \in 1..Len(first) |-> Str(<<"a">>)]]

ScoreInputs == {ScoreTable(first, nrows) : first \in FirstRows, nrows \in RowCounts}

InitScore ==
    /\ call \in {[fn |-> "looks_like_header_row", arg |-> row] : row \in FirstRows}
                \cup {[fn |-> "score_table_as_transactions", arg |-> t] : t \in ScoreInputs}
    /\ ret = Pending
    /\ path = "none"
    /\ PipelineIdle

CallLooksLikeHeader ==
    /\ call.fn = "looks_like_header_row"
    /\ ret = Pending
    /\ ret' = [kind |-> "bool", value |-> looks_like_header_row(call.arg)]
    /\ UNCHANGED <<call, path, pipeline>>

\* the score is kept doubled
CallScoreTable ==
    /\ call.fn = "score_table_as_transactions"
    /\ ret = Pending
    /\ ret' = [kind |-> "score", doubled |-> score_table_as_transactions(call.arg)]
    /\ UNCHANGED <<call, path, pipeline>>

NextScore == CallLooksLikeHeader \/ CallScoreTable

SpecScore == InitScore /\ [][NextScore]_vars

(***************************************************************************)
(* What the claims about the score of a table speak of.                    *)
(***************************************************************************)
ScoreReturned == call.fn = "score_table_as_transactions" /\ ret # Pending

\* the columns of the first row, 0 for a table without rows
ColumnsOf(t) == IF t = <<>> THEN 0 ELSE Len(t[1])

\* twice the sum that the claim states for an eligible table
DoubledSum(t) ==
    (IF looks_like_header_row(t[1]) THEN 20 ELSE 0)
        + (IF ColumnsOf(t) >= 3 THEN 10 ELSE IF ColumnsOf(t) = 2 THEN 4 ELSE 0)
        + (IF Len(t) - 1 <= 20 THEN Len(t) - 1 ELSE 20)

ScoreIsTheSum ==
    ScoreReturned
    => ret.doubled = IF Len(call.arg) < 2 \/ ColumnsOf(call.arg) < 2
                     THEN 0 ELSE DoubledSum(call.arg)

\* the same first row over more rows never scores lower
MoreRowsNeverLower ==
    (ScoreReturned /\ call.arg # <<>>)
    => \A n \in RowCounts :
          n >= Len(call.arg)
          => score_table_as_transactions(ScoreTable(call.arg[1], n)) >= ret.doubled

\* the table with the first row wider over as many rows
Widened(t, wider) == ScoreTable(wider, Len(t))

\* C28 as stated: the score is 0 for a table with fewer than 2 rows or fewer
\* than 2 columns in its first row and otherwise the sum of 10 for a first
\* row that looks like a header, 5 for 3 or more columns or 2 for exactly 2,
\* and 0.5 per row after the first up to 20 rows; a table that adds rows, or
\* goes from 2 columns to 3 or more, never scores lower.
ScoreNeverLowerWithMoreColumns ==
    /\ ScoreIsTheSum
    /\ MoreRowsNeverLower
    /\ (ScoreReturned /\ ColumnsOf(call.arg) = 2)
          => \A wider \in FirstRows :
                Len(wider) >= 3
                => score_table_as_transactions(Widened(call.arg, wider)) >= ret.doubled

\* C28, amended: the score is that sum; a table that adds rows never scores
\* lower; a table that goes from 2 columns to 3 or more never scores lower
\* unless its first row stops looking like a header.
ScoreIsSumAndGrowsWithRows ==
    /\ ScoreIsTheSum
    /\ MoreRowsNeverLower
    /\ (ScoreReturned /\ ColumnsOf(call.arg) = 2)
          => \A wider \in FirstRows :
                (/\ Len(wider) >= 3
                 /\ looks_like_header_row(call.arg[1]) => looks_like_header_row(wider))
                => score_table_as_transactions(Widened(call.arg, wider)) >= ret.doubled

\* twenty-one data rows count as twenty
ScoreCapWitness ==
    /\ ScoreReturned
    /\ call.arg = ScoreTable(<<Str(<<"D", "a", "t", "e">>), Str(<<"1", "2", "3">>)>>, 22)
    /\ ret.doubled = 44

(***************************************************************************)
(* What the claim about header-like rows speaks of.                        *)
(***************************************************************************)
\* a cell that holds text which is not numeric
IsTextCell(cell) ==
    /\ cell.kind = "str"
    /\ Strip(cell.s) # <<>>
    /\ ~IsNumericCell(cell)

\* C29: a first row looks like a header exactly when a majority of its
\* cells are non-numeric text: a row of which exactly half is numeric, a row
\* without any non-numeric text and the empty row do not.
HeaderIsMajorityOfText ==
    (call.fn = "looks_like_header_row" /\ ret # Pending)
    => ret.value
          = (2 * Cardinality({j \in 1..Len(call.arg) : IsTextCell(call.arg[j])})
                > Len(call.arg))

(***************************************************************************)
(* core/filter_rules.py: the exclusion rules. A table is a sequence of     *)
(* rows [at, Date, Description, Debit]: Debit in whole VND, at the place   *)
(* of the row in the table given to apply_all_rules, kept as history and   *)
(* never compared.                                                         *)
(***************************************************************************)
MAX_SINGLE_TRANSACTION_VND == 100000000

GLOBAL_EXCLUSION_KEYWORDS ==
    << <<"P", "H", "A", "T", " ", "L", "O", "C", " ", "R", "E", "A", "L", " ", "E", "S", "T", "A", "T", "E">>,
       <<"S", "i", "n", "h", " ", "l", "o", "i", " ", "t", "u", " ", "d", "o", "n", "g">>,
       <<"t", "e", "a", "m", " ", "b", "o", "n", "d", "i", "n", "g">>,
       <<"H", "O", "A", "N", " ", "T", "R", "A", " ", "L", "C", "T">>,
       <<"T", "h", "a", "n", "h", " ", "t", "o", "a", "n", " ", "n", "o", " ", "t", "h", "e", " ", "t", "i", "n", " ", "d", "u", "n", "g">> >>

\* MONTH_SPECIFIC_EXCLUSIONS.get((year, month), [])
MonthKeywords(year, month) ==
    CASE year = 2025 /\ month = 12 ->
        << <<"V", "O", " ", "T", "H", "I", " ", "H", "O", "N", "G">>,
           <<"T", "R", "A", "N", " ", "T", "R", "U", "N", "G", " ", "H", "I", "E", "U">>,
           <<"D", "a", "t", " ", "T", "r", "a", "n">>,
           <<"N", "G", "U", "Y", "E", "N", " ", "T", "H", "I", " ", "C", "A", "M", " ", "T", "U">>,
           <<"A", "n", "h", " ", "D", "u", "n", "g">>,
           <<"V", "O", " ", "Q", "U", "O", "C", " ", "C", "U", "O", "N", "G">> >>
      [] year = 2026 /\ month = 1 ->
        << <<"L", "E", " ", "T", "H", "A", "N", "H", " ", "P", "H", "O", "N", "G">>,
           <<"D", "U", "O", "N", "G", " ", "H", "U", "Y", "N", "H", " ", "B", "I", "C", "H", " ", "N", "G", "O", "C">>,
           <<"A", "n", "h", " ", "D", "u", "n", "g">> >>
      [] year = 2026 /\ month = 2 ->
        << <<"V", "U", " ", "P", "H", "A", "M", " ", "L", "O", "A", "N", " ", "T", "H", "A", "O">>,
           <<"T", "R", "A", "N", "G", " ", "T", "H", "I", " ", "K", "I", "E", "U", " ", "D", "U", "Y", "E", "N">>,
           <<"N", "G", "U", "Y", "E", "N", " ", "T", "H", "I", " ", "B", "A", "O", " ", "T", "R", "A", "N", "G">>,
           <<"T", "R", "A", "N", " ", "T", "U", "A", "N", " ", "D", "A", "T">> >>
      [] OTHER -> <<>>

Upper(c) ==
    IF \E k \in 1..Len(LowerCase) : LowerCase[k] = c
    THEN UpperCase[CHOOSE k \in 1..Len(LowerCase) : LowerCase[k] = c]
    ELSE c

UpperText(s) == [j \in 1..Len(s) |-> Upper(s[j])]

\* _description_contains(desc, keyword)
description_contains(desc, keyword) ==
    IF desc.kind # "str" THEN FALSE
    ELSE Contains(UpperText(desc.s), UpperText(Strip(keyword)))

\* float(num_str) for a text of digits and "-": the number, None when
\* float raises ValueError
FloatOfDigits(num_str) ==
    IF num_str # <<>> /\ AllDigits(num_str) THEN Num(NatOf(num_str))
    ELSE IF Len(num_str) >= 2 /\ Head(num_str) = "-" /\ AllDigits(Tail(num_str))
    THEN Num(0 - NatOf(Tail(num_str)))
    ELSE None

\* the body of the loop of _matches_custom_exclusion for one part
PartMatches(desc_str, amount, part) ==
    /\ Strip(part) # <<>>
    /\ \/ LET num == FloatOfDigits(Filter(Strip(part), Digits \cup {"-"}))
           IN  num # None /\ amount = num.v
       \/ Contains(desc_str, UpperText(Strip(part)))

\* _matches_custom_exclusion(desc, amount, custom_parts), amount a number
matches_custom_exclusion(desc, amount, custom_parts) ==
    LET desc_str == IF desc.kind # "str" THEN <<>> ELSE UpperText(desc.s)
    IN  \E k \in 1..Len(custom_parts) : PartMatches(desc_str, amount, custom_parts[k])

\* s.split(sep) for a separator of one character
RECURSIVE Split(_, _)
Split(s, sep) ==
    IF \E j \in 1..Len(s) : s[j] = sep
    THEN LET j == CHOOSE q \in 1..Len(s) : s[q] = sep /\ \A u \in 1..(q - 1) : s[u] # sep
         IN  <<SubSeq(s, 1, j - 1)>> \o Split(SubSeq(s, j + 1, Len(s)), sep)
    ELSE <<s>>

NonBlank(part) == Strip(part) # <<>>

\* [p.strip() for p in custom_text.split(",") if p.strip()]
CustomParts(custom_text) ==
    LET parts == SelectSeq(Split(custom_text, ","), NonBlank)
    IN  [k \in 1..Len(parts) |-> Strip(parts[k])]

\* df[mask] for keep = TRUE, df[~mask] for keep = FALSE
RECURSIVE MaskRows(_, _, _)
MaskRows(df, mask, keep) ==
    IF df = <<>> THEN <<>>
    ELSE (IF Head(mask) = keep THEN <<Head(df)>> ELSE <<>>)
            \o MaskRows(Tail(df), Tail(mask), keep)

\* excluded = df[mask_exclude], included = df[~mask_exclude]
SplitByMask(df, mask_exclude) ==
    [included |-> MaskRows(df, mask_exclude, FALSE),
     excluded |-> MaskRows(df, mask_exclude, TRUE)]

\* apply_global_exclusions(df, desc_col, amount_col)
apply_global_exclusions(df) ==
    SplitByMask(df,
        [k \in 1..Len(df) |->
            \/ df[k].Debit > MAX_SINGLE_TRANSACTION_VND
            \/ \E j \in 1..Len(GLOBAL_EXCLUSION_KEYWORDS) :
                  description_contains(df[k].Description, GLOBAL_EXCLUSION_KEYWORDS[j])])

\* apply_month_specific_exclusions(df, year, month, desc_col)
apply_month_specific_exclusions(df, year, month) ==
    SplitByMask(df,
        [k \in 1..Len(df) |->
            \E j \in 1..Len(MonthKeywords(year, month)) :
               description_contains(df[k].Description, MonthKeywords(year, month)[j])])

\* apply_custom_exclusions(df, desc_col, amount_col, custom_text)
apply_custom_exclusions(df, custom_text) ==
    IF df = <<>> \/ Strip(custom_text) = <<>>
    THEN [included |-> df, excluded |-> <<>>]
    ELSE SplitByMask(df,
            [k \in 1..Len(df) |->
                matches_custom_exclusion(df[k].Description, df[k].Debit,
                                         CustomParts(custom_text))])

\* the columns of a row
ColumnsOfRow(row) == [Date |-> row.Date, Description |-> row.Description, Debit |-> row.Debit]

\* drop_duplicates(keep="first") over all columns
RECURSIVE drop_duplicate_rows(_)
drop_duplicate_rows(rows) ==
    IF rows = <<>> THEN <<>>
    ELSE LET front == drop_duplicate_rows(SubSeq(rows, 1, Len(rows) - 1))
             last == rows[Len(rows)]
         IN  IF \E k \in 1..Len(front) : ColumnsOfRow(front[k]) = ColumnsOfRow(last)
             THEN front ELSE Append(front, last)

\* excluded_combined: pd.concat of the non-empty parts, deduplicated when
\* rows were excluded and rows are left
combine_excluded(all_excluded, current) ==
    LET combined == Flatten(all_excluded)
    IN  IF combined # <<>> /\ current # <<>>
        THEN drop_duplicate_rows(combined) ELSE combined

(***************************************************************************)
(* apply_all_rules on tables of up to MaxRuleRows rows.                    *)
(***************************************************************************)
RuleRow(date, desc, debit) == [Date |-> date, Description |-> desc, Debit |-> debit]

\* a global keyword in other case
RowTeamBonding == RuleRow("2025-12-01", Str(<<"T", "e", "a", "m", " ", "B", "o", "n", "d", "i", "n", "g", " ", "Q", "4">>), 500000)

RowCoffee == RuleRow("2025-12-01", Str(<<"C", "o", "f", "f", "e", "e">>), 45000)

\* RowCoffee on another day
RowCoffeeNextDay == RuleRow("2025-12-02", Str(<<"C", "o", "f", "f", "e", "e">>), 45000)

\* a keyword of December 2025
RowVoThiHong == RuleRow("2025-12-01", Str(<<"V", "O", " ", "T", "H", "I", " ", "H", "O", "N", "G">>), 42500000)

\* above MAX_SINGLE_TRANSACTION_VND
RowCar == RuleRow("2025-12-03", Str(<<"C", "a", "r">>), 150000000)

RowRent == RuleRow("2025-12-03", Str(<<"R", "e", "n", "t">>), 15000000)

\* no description
RowNoDescription == RuleRow("2025-12-04", None, 30000)

RuleRowVocab ==
    {RowTeamBonding, RowCoffee, RowCoffeeNextDay, RowVoThiHong, RowCar, RowRent,
     RowNoDescription}

MaxRuleRows == 3

\* (year, month): a month with keywords of its own and one without
MonthVocab == {<<2025, 12>>, <<2026, 3>>}

\* custom_exclusions_text: none, a keyword and an amount, a part that float
\* refuses
CustomVocab ==
    { <<>>,
      <<"c", "o", "f", "f", "e", "e", ",", " ", "1", "5", ".", "0", "0", "0", ".", "0", "0", "0">>,
      <<"-">> }

\* the table of the rows given, each with its place
TableOf(rows) ==
    [k \in 1..Len(rows) |->
        [at |-> k, Date |-> rows[k].Date, Description |-> rows[k].Description,
         Debit |-> rows[k].Debit]]

RuleInputs ==
    {[df |-> TableOf(rows), year |-> ym[1], month |-> ym[2], custom |-> text] :
        rows \in SeqsUpTo(RuleRowVocab, MaxRuleRows), ym \in MonthVocab,
        text \in CustomVocab}

\* the locals of apply_all_rules at its start; evaluated is history: per
\* rule applied, the places of the rows it was given
RulesAt(pos, input, current, all_excluded, evaluated) ==
    [pc |-> pos, df |-> input.df, year |-> input.year, month |-> input.month,
     custom |-> input.custom, current |-> current, all_excluded |-> all_excluded,
     evaluated |-> evaluated]

Places(df) == {df[k].at : k \in 1..Len(df)}

InitRules ==
    /\ call = [fn |-> "apply_all_rules"]
    /\ rules \in {RulesAt("start", input, input.df, <<>>, <<>>) : input \in RuleInputs}
    /\ ret = Pending
    /\ path = "none"
    /\ ParserIdle

RulesResult(valid, excluded) == [kind |-> "rules", valid |-> valid, excluded |-> excluded]

\* if df.empty: return df.copy(), pd.DataFrame()
RulesEmpty ==
    /\ rules.pc = "start"
    /\ rules.df = <<>>
    /\ ret' = RulesResult(<<>>, <<>>)
    /\ rules' = [rules EXCEPT !.pc = "done"]
    /\ UNCHANGED <<call, path, parser>>

\* one rule applied: current and all_excluded after it
AfterRule(pos, split) ==
    [rules EXCEPT !.pc = pos,
                  !.current = split.included,
                  !.all_excluded = Append(@, split.excluded),
                  !.evaluated = Append(@, Places(rules.current))]

\* 1. Global exclusions
ApplyGlobal ==
    /\ rules.pc = "start"
    /\ rules.df # <<>>
    /\ rules' = AfterRule("global", apply_global_exclusions(rules.current))
    /\ UNCHANGED <<call, ret, path, parser>>

\* 2. Month-specific
ApplyMonth ==
    /\ rules.pc = "global"
    /\ rules' = AfterRule("month",
                          apply_month_specific_exclusions(rules.current, rules.year,
                                                          rules.month))
    /\ UNCHANGED <<call, ret, path, parser>>

\* 3. Custom
ApplyCustom ==
    /\ rules.pc = "month"
    /\ rules' = AfterRule("custom", apply_custom_exclusions(rules.current, rules.custom))
    /\ UNCHANGED <<call, ret, path, parser>>

\* excluded_combined and the return
CombineExcluded ==
    /\ rules.pc = "custom"
    /\ ret' = RulesResult(rules.current, combine_excluded(rules.all_excluded, rules.current))
    /\ rules' = [rules EXCEPT !.pc = "done"]
    /\ UNCHANGED <<call, path, parser>>

NextRules == RulesEmpty \/ ApplyGlobal \/ ApplyMonth \/ ApplyCustom \/ CombineExcluded

SpecRules == InitRules /\ [][NextRules]_vars

(***************************************************************************)
(* What the claim about the exclusion rules speaks of.                     *)
(***************************************************************************)
RulesReturned == call.fn = "apply_all_rules" /\ ret # Pending

\* the rows of the result that come from the place given
RowsFromPlace(result, place) == {k \in 1..Len(result) : result[k].at = place}

\* the rules run in the order global, month-specific, custom, and a rule
\* is given only the rows that the rules before it left
RulesInOrder ==
    (call.fn = "apply_all_rules" /\ rules.df # <<>>)
    => /\ rules.pc \in {"start", "global", "month", "custom", "done"}
       /\ Len(rules.evaluated) = Len(rules.all_excluded)
       /\ Len(rules.evaluated) = CASE rules.pc = "start" -> 0
                                    [] rules.pc = "global" -> 1
                                    [] rules.pc = "month" -> 2
                                    [] OTHER -> 3
       /\ \A j \in 1..Len(rules.evaluated) :
             \A u \in 1..(j - 1) :
                rules.evaluated[j] \cap Places(rules.all_excluded[u]) = {}

\* C30: apply_all_rules partitions its input: every input row is in exactly
\* one of valid and excluded, so len(valid) + len(excluded) is the number of
\* input rows, also when rows are identical in every column; the rules run
\* in the order global, month-specific, custom, and a row excluded by an
\* earlier rule is not evaluated by a later one.
RulesPartitionInput ==
    /\ RulesInOrder
    /\ RulesReturned
          => /\ Len(ret.valid) + Len(ret.excluded) = Len(rules.df)
             /\ \A place \in 1..Len(rules.df) :
                   Cardinality(RowsFromPlace(ret.valid, place))
                      + Cardinality(RowsFromPlace(ret.excluded, place)) = 1

=============================================================================
